---- MODULE Spec2Model ----
(***************************************************************************)
(* Model of the EVtrains scripts: the status classifiers, the day selector *)
(* (fetch_rtt.js, grace-after-departure policy) and the transfer planner   *)
(* (xfer_plan.js, first legs with their connections).                      *)
(*                                                                         *)
(* Conventions.  An "HHMM" string is the sequence of its four digits, so   *)
(* that parsing and formatting are computed, and the empty sequence is the *)
(* absent value (JavaScript's null, undefined and "" are all falsy).  A    *)
(* nullable number is <<>> or <<n>>.  A missing object is Null.            *)
(***************************************************************************)
EXTENDS Integers, Sequences, FiniteSets, TLC

\* ------------------------------------------------------------------ bounds

\* Observed times range over the booked time -MaxDelta .. +MaxDelta minutes.
MaxDelta == 1

\* ------------------------------------------------------- values and helpers

Null == [null |-> TRUE]
None == <<>>

Truthy(s) == s # None

\* a || b on strings
Or2(a, b) == IF Truthy(a) THEN a ELSE b

\* String(n).padStart(2, "0") followed by the same for m: the text "HHMM"
HHMM(h, m) == <<h \div 10, h % 10, m \div 10, m % 10>>

\* parseInt(s.slice(0, 2), 10) * 60 + parseInt(s.slice(2), 10)
hhmmToMinutes(s) == (s[1] * 10 + s[2]) * 60 + (s[3] * 10 + s[4])

diffMinutes(a, b) == hhmmToMinutes(a) - hhmmToMinutes(b)

\* The text of the time k minutes after the time written s (same day).
Shift(s, k) == HHMM((hhmmToMinutes(s) + k) \div 60, (hhmmToMinutes(s) + k) % 60)

Around(s) == {Shift(s, k) : k \in (0 - MaxDelta)..MaxDelta}

\* ------------------------------------------------------- program constants

\* BOOKED_DEPART_HHMM default "0744"
GBTT == HHMM(7, 44)

SWITCH_GRACE_MINS == 2

\* ------------------------------------------------------------- stop calls

\* One location of a service detail, as the provider sends it.
Call(bArr, bDep, rArr, rDep, aArr, aDep, canc) ==
    [gbttBookedArrival |-> bArr, gbttBookedDeparture |-> bDep,
     realtimeArrival |-> rArr, realtimeDeparture |-> rDep,
     actualArrival |-> aArr, actualDeparture |-> aDep,
     isCancelled |-> canc]

\* {} : the value findStop gives for a station the service does not call at
EmptyStop == Call(None, None, None, None, None, None, FALSE)

\* ---------------------------------------------------------- classifiers

\* fetch_rtt.js (day selector): callInfo
callInfo(call) ==
    IF call = Null THEN Null
    ELSE LET bookedArr == call.gbttBookedArrival
             bookedDep == call.gbttBookedDeparture
             rtArr == call.realtimeArrival
             rtDep == call.realtimeDeparture
         IN [bookedArrival |-> bookedArr,
             bookedDeparture |-> bookedDep,
             realtimeArrival |-> rtArr,
             realtimeDeparture |-> rtDep,
             arrivalDelayMins |->
                 IF Truthy(rtArr) /\ Truthy(bookedArr)
                 THEN <<diffMinutes(rtArr, bookedArr)>> ELSE None,
             departureDelayMins |->
                 IF Truthy(rtDep) /\ Truthy(bookedDep)
                 THEN <<diffMinutes(rtDep, bookedDep)>> ELSE None,
             isCancelled |-> call.isCancelled]

\* x?.isCancelled
OptCancelled(c) == IF c = Null THEN FALSE ELSE c.isCancelled

\* (x?.departureDelayMins ?? 0), (x?.arrivalDelayMins ?? 0)
OptDepDelay(c) ==
    IF c = Null \/ c.departureDelayMins = None THEN 0 ELSE c.departureDelayMins[1]

OptArrDelay(c) ==
    IF c = Null \/ c.arrivalDelayMins = None THEN 0 ELSE c.arrivalDelayMins[1]

\* a variant with the priority of "early" over "delayed"
overallStatus_EarlyFirst(origin, dest) ==
    IF OptCancelled(origin) \/ OptCancelled(dest) THEN "cancelled"
    ELSE IF OptDepDelay(origin) < 0 \/ OptArrDelay(dest) < 0 THEN "early"
    ELSE IF OptDepDelay(origin) > 0 \/ OptArrDelay(dest) > 0 THEN "delayed"
    ELSE "on_time"

\* a variant that looks at the origin's cancellation only
overallStatus_OriginOnly(origin, dest) ==
    IF OptCancelled(origin) THEN "cancelled"
    ELSE IF OptDepDelay(origin) > 0 \/ OptArrDelay(dest) > 0 THEN "delayed"
    ELSE IF OptDepDelay(origin) < 0 \/ OptArrDelay(dest) < 0 THEN "early"
    ELSE "on_time"

\* fetch_rtt.js (day selector): overallStatus
overallStatus(origin, dest) ==
    IF OptCancelled(origin) \/ OptCancelled(dest) THEN "cancelled"
    ELSE IF OptDepDelay(origin) > 0 \/ OptArrDelay(dest) > 0 THEN "delayed"
    ELSE IF OptDepDelay(origin) < 0 \/ OptArrDelay(dest) < 0 THEN "early"
    ELSE "on_time"

\* xfer_plan.js and the cutover fetch_rtt.js: statusFrom, on the raw stops.
\* The two times are compared as strings, with !==.
statusFrom(o, d) ==
    IF o.isCancelled \/ d.isCancelled THEN "cancelled"
    ELSE LET depLate == Truthy(o.gbttBookedDeparture) /\ Truthy(o.realtimeDeparture)
                        /\ o.realtimeDeparture # o.gbttBookedDeparture
             arrLate == Truthy(d.gbttBookedArrival) /\ Truthy(d.realtimeArrival)
                        /\ d.realtimeArrival # d.gbttBookedArrival
         IN IF depLate \/ arrLate THEN "delayed" ELSE "on_time"

\* fetch_rtt.js (single-service tracker): locationTimes.  The provider's
\* alternative field names (bookedArrival, publicArrival, ...) are not sent
\* by the inputs of this model.
locationTimes(loc) ==
    [bookedArrival |-> loc.gbttBookedArrival,
     bookedDeparture |-> loc.gbttBookedDeparture,
     rtArrival |-> Or2(loc.realtimeArrival, loc.actualArrival),
     rtDeparture |-> Or2(loc.realtimeDeparture, loc.actualDeparture)]

\* fetch_rtt.js (single-service tracker): hhmmToMins, null when absent
hhmmToMins(hhmm) ==
    IF ~Truthy(hhmm) \/ Len(hhmm) < 3 THEN None
    ELSE <<(hhmm[1] * 10 + hhmm[2]) * 60 + (hhmm[3] * 10 + hhmm[4])>>

delayMins(bookedHHMM, rtHHMM) ==
    LET b == hhmmToMins(bookedHHMM)
        r == hhmmToMins(rtHHMM)
    IN IF b = None \/ r = None THEN None ELSE <<r[1] - b[1]>>

Max2(a, b) == IF a >= b THEN a ELSE b

\* a variant that takes a delay of 0 for late
statusFromDelays_ZeroLate(depDelay, arrDelay, cancelled) ==
    IF cancelled THEN "cancelled"
    ELSE LET d == IF depDelay = None THEN 0 ELSE depDelay[1]
             a == IF arrDelay = None THEN 0 ELSE arrDelay[1]
             worst == Max2(d, a)
         IN IF worst >= 0 THEN "delayed" ELSE "on_time"

\* fetch_rtt.js (single-service tracker): statusFromDelays
statusFromDelays(depDelay, arrDelay, cancelled) ==
    IF cancelled THEN "cancelled"
    ELSE LET d == IF depDelay = None THEN 0 ELSE depDelay[1]
             a == IF arrDelay = None THEN 0 ELSE arrDelay[1]
             worst == Max2(d, a)
         IN IF worst >= 1 THEN "delayed" ELSE "on_time"

\* fetch_rtt.js (single-service tracker): the status of the payload, as main
\* computes it from the two locations and the detail's own flag.
trackerStatus(originLoc, destLoc, detailCancelled) ==
    LET o == locationTimes(originLoc)
        d == locationTimes(destLoc)
        depDelayMins == delayMins(o.bookedDeparture, o.rtDeparture)
        arrDelayMins == delayMins(d.bookedArrival, d.rtArrival)
        isCancelled == originLoc.isCancelled \/ destLoc.isCancelled \/ detailCancelled
    IN statusFromDelays(depDelayMins, arrDelayMins, isCancelled)

\* --------------------------------------------------------------- state

VARIABLES
    clsIn,        \* classifier run: the origin and destination stop calls
    clsOut,       \* classifier run: the classifier applied and what it returned
    dsScript,     \* day selector: which of the two scripts is running
    dsCred,       \* whether RTT_USERNAME (USER) and RTT_PASSWORD (PASS) are set
    dsClock,      \* the instant new Date() reads, finer than the minute of `now`
    dsRerun,      \* which run this is, and what the provider answered in the first
    dsNow,        \* nowHHMM
    dsPc,         \* where the run is
    dsTarget,     \* the date the running fetchForDate is for
    dsFiltered,   \* fetchForDate: filtered
    dsServices,   \* fetchForDate: services
    dsIdx,        \* fetchForDate: position of the probing loop
    dsChosen,     \* fetchForDate: chosen
    dsToday,      \* main: todayPayload
    dsPayload,    \* main: payload
    dsSwitch,     \* main: switchNow, <<>> until decided
    dsRuleEval,   \* history: the threshold + grace comparison was computed
    dsSeen,       \* history: per date, the detail received for the chosen service
    dsLookups,    \* history: the dates of the lookups issued, repeats collapsed
    statusJson,   \* the file status.json
    historyLog,   \* the records appended to history.jsonl by this run
    xfScript,     \* transfer planner: which script is running
    xfPc,         \* where the run is
    xfOut,        \* main: out (direct, legs)
    xfFile,       \* the file xfer.json
    xfDirectSvc,  \* main: the service chosen for the direct option
    xfI,          \* first legs: position in the search result `all`
    xfLegs,       \* main: legs
    xfSvc,        \* main: svc, the first-leg candidate in hand
    xfCur,        \* main: the stops o and cj of svc's detail
    xfJ,          \* connections: position in the search result `cand`
    xfConns,      \* main: conns
    xfC,          \* main: c, the connection candidate in hand
    xfLast,       \* history: the last connection candidate decided on
    xfSeen,       \* history: the lookup the last step made, and how it ended
    xfTimetable,  \* the times the provider's timetable holds on the day of the run
    dtPc,         \* detailBySvc: where the call is
    dtSvc,        \* detailBySvc: svc
    dtIso,        \* detailBySvc: iso
    dtLog,        \* history: the lookups the call made and their answers
    dtErr,        \* detailBySvc: e, the failure of the lookup by uid and run date
    dtDeltas,     \* detailBySvc: the deltas the for loop has still to go through
    dtOut,        \* what the call returned or threw
    pqPc,         \* pairing planner: where main is
    pqSrcClj,     \* pairing planner: what rttGet(srcCljUrl) settled with
    pqCljImw,     \* pairing planner: what rttGet(cljImwUrl) settled with
    pqOrder,      \* history: the searches in the order they were answered
    pqFile,       \* pairing planner: xfer.json
    cfPc,         \* cutover status fetcher: where the run is
    cfCred,       \* which of RTT_USERNAME and RTT_PASSWORD are set
    cfNow,        \* localHM at the start of the run
    cfSvc,        \* main: svc
    cfErr,        \* main: e, the failure of the lookup by uid and target date
    cfDeltas,     \* main: the deltas the for loop has still to go through
    cfDetail,     \* main: detail
    cfLog,        \* history: the lookups the run made and whether each failed
    cfTmp,        \* the file status.tmp.json
    cfFile        \* the file status.json

clsVars == <<clsIn, clsOut>>

dsEnv == <<dsScript, dsCred, dsNow, dsClock>>

dsLocals == <<dsFiltered, dsServices, dsIdx, dsChosen>>

dsMain == <<dsToday, dsPayload, dsSwitch, dsRuleEval, dsTarget>>

files == <<statusJson, historyLog>>

dsVars == <<dsEnv, dsPc, dsLocals, dsMain, dsSeen, dsLookups, files, dsRerun>>

xfLoop == <<xfI, xfLegs, xfSvc, xfCur>>

xfConnLoop == <<xfJ, xfConns, xfC>>

xfVars == <<xfScript, xfPc, xfOut, xfFile, xfDirectSvc, xfLoop, xfConnLoop, xfLast,
           xfSeen, xfTimetable>>

dtVars == <<dtPc, dtSvc, dtIso, dtLog, dtErr, dtDeltas, dtOut>>

pqVars == <<pqPc, pqSrcClj, pqCljImw, pqOrder, pqFile>>

cfVars == <<cfPc, cfCred, cfNow, cfSvc, cfErr, cfDeltas, cfDetail, cfLog, cfTmp, cfFile>>

vars == <<clsVars, dsVars, xfVars, dtVars, pqVars, cfVars>>

\* What status.json holds before a run: the previous run's snapshot.
PreviousSnapshot == [previous |-> TRUE]

\* A run on its own: nothing is kept of the provider's answers.
NoRerun ==
    [run |-> 0, tape |-> <<>>, at |-> 0, first |-> Null, same |-> FALSE, earlier |-> Null]

\* The day selector before it is started.
DsIdle ==
    /\ dsScript = "part_001" /\ dsCred = [USER |-> TRUE, PASS |-> TRUE] /\ dsNow = GBTT
    /\ dsClock = 1 /\ dsRerun = NoRerun
    /\ dsPc = "idle" /\ dsTarget = "today"
    /\ dsFiltered = FALSE /\ dsServices = <<>> /\ dsIdx = 0 /\ dsChosen = Null
    /\ dsToday = Null /\ dsPayload = Null /\ dsSwitch = None /\ dsRuleEval = FALSE
    /\ dsSeen = [day \in {"today", "tomorrow"} |-> Null]
    /\ dsLookups = <<>>
    /\ statusJson = PreviousSnapshot /\ historyLog = <<>>

\* What xfer.json holds before a run: the previous run's plan.
PreviousPlan == [previous |-> TRUE]

\* The transfer planner before it is started.
XfIdle ==
    /\ xfScript = "part_003" /\ xfPc = "idle"
    /\ xfOut = [direct |-> Null, legs |-> <<>>]
    /\ xfFile = PreviousPlan
    /\ xfDirectSvc = Null
    /\ xfI = 0 /\ xfLegs = <<>>
    /\ xfSvc = Null /\ xfCur = Null
    /\ xfJ = 0 /\ xfConns = <<>> /\ xfC = Null
    /\ xfLast = Null /\ xfSeen = Null
    /\ xfTimetable = Null

\* A lookup that has not been answered yet.
Pending == [pending |-> TRUE]

\* The pairing planner before it is started.
PqIdle ==
    /\ pqPc = "idle"
    /\ pqSrcClj = Pending /\ pqCljImw = Pending
    /\ pqOrder = <<>>
    /\ pqFile = PreviousPlan

\* detailBySvc before it is called.
\* The cutover status fetcher before it is started.
CfIdle ==
    /\ cfPc = "idle"
    /\ cfCred = [USER |-> TRUE, PASS |-> TRUE] /\ cfNow = HHMM(0, 0)
    /\ cfSvc = Null /\ cfErr = None /\ cfDeltas = <<>> /\ cfDetail = Null
    /\ cfLog = <<>>
    /\ cfTmp = Null /\ cfFile = PreviousSnapshot

DtIdle ==
    /\ dtPc = "idle"
    /\ dtSvc = Null /\ dtIso = None
    /\ dtLog = <<>> /\ dtErr = None /\ dtDeltas = <<>>
    /\ dtOut = Null

\* ------------------------------------------------ classifier, on its own

\* Booked arrival at the destination of the booked service ("0820").
BookedArr == HHMM(8, 20)

\* The 5 minutes late arrival of the spec's scenario ("0825").
LateArr == HHMM(8, 25)

OriginCalls ==
    {Call(None, bDep, None, rDep, None, aDep, canc) :
        bDep \in {None, GBTT},
        rDep \in {None} \cup Around(GBTT),
        aDep \in {None, Shift(GBTT, 1)},
        canc \in BOOLEAN}

DestCalls ==
    {Call(bArr, None, rArr, None, aArr, None, canc) :
        bArr \in {None, BookedArr},
        rArr \in {None, LateArr} \cup Around(BookedArr),
        aArr \in {None, Shift(BookedArr, 1)},
        canc \in BOOLEAN}

ClsNone == [fn |-> "none", status |-> "none"]

ClsIdle == [origin |-> Null, dest |-> Null, detailCancelled |-> FALSE]

ClsInit ==
    /\ clsIn \in [origin : OriginCalls \cup {Null},
                  dest : DestCalls \cup {Null},
                  detailCancelled : BOOLEAN]
    /\ clsOut = ClsNone
    /\ DsIdle
    /\ XfIdle
    /\ DtIdle
    /\ PqIdle
    /\ CfIdle

\* findStop / stop: the stop, or {} when the service does not call there
OrEmpty(c) == IF c = Null THEN EmptyStop ELSE c

ApplyOverallStatus ==
    /\ clsOut' = [fn |-> "overallStatus",
                  status |-> overallStatus(callInfo(clsIn.origin), callInfo(clsIn.dest))]
    /\ UNCHANGED <<clsIn, dsVars, xfVars, dtVars, pqVars, cfVars>>

ApplyStatusFrom ==
    /\ clsOut' = [fn |-> "statusFrom",
                  status |-> statusFrom(OrEmpty(clsIn.origin), OrEmpty(clsIn.dest))]
    /\ UNCHANGED <<clsIn, dsVars, xfVars, dtVars, pqVars, cfVars>>

\* The tracker classifies only when both locations were found.
ApplyTrackerStatus ==
    /\ clsIn.origin # Null
    /\ clsIn.dest # Null
    /\ clsOut' = [fn |-> "statusFromDelays",
                  status |-> trackerStatus(clsIn.origin, clsIn.dest, clsIn.detailCancelled)]
    /\ UNCHANGED <<clsIn, dsVars, xfVars, dtVars, pqVars, cfVars>>

ClsNext == ApplyOverallStatus \/ ApplyStatusFrom \/ ApplyTrackerStatus

SpecClassify == ClsInit /\ [][ClsNext]_vars

\* ------------------------------------------------ classifier: properties

\* Hour and minute as written, compared without converting to minutes.
HourOf(s) == s[1] * 10 + s[2]
MinuteOf(s) == s[3] * 10 + s[4]

\* a is a later time of day than b (so at least one minute later)
LaterThan(a, b) ==
    \/ HourOf(a) > HourOf(b)
    \/ HourOf(a) = HourOf(b) /\ MinuteOf(a) > MinuteOf(b)

ClsApplied == clsOut.fn # "none"

EitherCancelled ==
    \/ clsIn.origin # Null /\ clsIn.origin.isCancelled
    \/ clsIn.dest # Null /\ clsIn.dest.isCancelled

\* Observed (realtime) departure at the origin against booked.
DepObservedLater ==
    /\ clsIn.origin # Null
    /\ Truthy(clsIn.origin.gbttBookedDeparture)
    /\ Truthy(clsIn.origin.realtimeDeparture)
    /\ LaterThan(clsIn.origin.realtimeDeparture, clsIn.origin.gbttBookedDeparture)

DepObservedEarlier ==
    /\ clsIn.origin # Null
    /\ Truthy(clsIn.origin.gbttBookedDeparture)
    /\ Truthy(clsIn.origin.realtimeDeparture)
    /\ LaterThan(clsIn.origin.gbttBookedDeparture, clsIn.origin.realtimeDeparture)

\* Observed (realtime) arrival at the destination against booked.
ArrObservedLater ==
    /\ clsIn.dest # Null
    /\ Truthy(clsIn.dest.gbttBookedArrival)
    /\ Truthy(clsIn.dest.realtimeArrival)
    /\ LaterThan(clsIn.dest.realtimeArrival, clsIn.dest.gbttBookedArrival)

ArrObservedEarlier ==
    /\ clsIn.dest # Null
    /\ Truthy(clsIn.dest.gbttBookedArrival)
    /\ Truthy(clsIn.dest.realtimeArrival)
    /\ LaterThan(clsIn.dest.gbttBookedArrival, clsIn.dest.realtimeArrival)

\* C4: whenever either stop call is cancelled, each classifier (overallStatus,
\* statusFrom, statusFromDelays) returns "cancelled", whatever the times are.
C4_CancelledWins ==
    (ClsApplied /\ EitherCancelled) => clsOut.status = "cancelled"

\* C4 witness: a cancelled destination on a service that also runs late at
\* the origin, classified by statusFromDelays.
C4_Witness ==
    /\ clsOut.fn = "statusFromDelays"
    /\ clsIn.dest.isCancelled /\ ~clsIn.origin.isCancelled
    /\ DepObservedLater
    /\ clsOut.status = "cancelled"

\* C5: for a pair that is not cancelled, overallStatus is "delayed" exactly
\* when the observed departure or the observed arrival is later than booked,
\* otherwise "early" exactly when either is earlier, otherwise "on_time".
C5_PriorityRule ==
    (clsOut.fn = "overallStatus" /\ ~EitherCancelled) =>
        clsOut.status =
            IF DepObservedLater \/ ArrObservedLater THEN "delayed"
            ELSE IF DepObservedEarlier \/ ArrObservedEarlier THEN "early"
            ELSE "on_time"

\* C5 witness: the scenario 0744/0744 at the origin, 0820/0825 at the
\* destination, classified "delayed".
C5_Witness ==
    /\ clsOut.fn = "overallStatus"
    /\ clsIn.origin # Null /\ clsIn.dest # Null
    /\ ~EitherCancelled
    /\ clsIn.origin.gbttBookedDeparture = HHMM(7, 44)
    /\ clsIn.origin.realtimeDeparture = HHMM(7, 44)
    /\ clsIn.dest.gbttBookedArrival = HHMM(8, 20)
    /\ clsIn.dest.realtimeArrival = HHMM(8, 25)
    /\ clsOut.status = "delayed"

\* C6: statusFrom returns "delayed" for a pair that is not cancelled only
\* when the observed departure or the observed arrival is later than booked;
\* an observed time earlier than booked never gives "delayed".
C6_DelayedOnlyWhenLater ==
    (clsOut.fn = "statusFrom" /\ clsOut.status = "delayed") =>
        (DepObservedLater \/ ArrObservedLater)

\* An observed time (realtime estimate or actual time) that is absent or
\* equal to the booked time.
Quiet(observed, booked) == observed = None \/ observed = booked

NoObservedChange ==
    /\ clsIn.origin # Null =>
        /\ Quiet(clsIn.origin.realtimeDeparture, clsIn.origin.gbttBookedDeparture)
        /\ Quiet(clsIn.origin.actualDeparture, clsIn.origin.gbttBookedDeparture)
    /\ clsIn.dest # Null =>
        /\ Quiet(clsIn.dest.realtimeArrival, clsIn.dest.gbttBookedArrival)
        /\ Quiet(clsIn.dest.actualArrival, clsIn.dest.gbttBookedArrival)

MaxSvcs == 2

ORIGIN == "STE"
DEST == "WIM"

SearchServices ==
    [gbttBookedDeparture : {GBTT, Shift(GBTT, 6)},
     destIsDest : BOOLEAN,
     hasIds : BOOLEAN]

SeqsUpTo(S, n) == UNION {[1..k -> S] : k \in 0..n}

SearchResponses == SeqsUpTo(SearchServices, MaxSvcs)

DsOriginCalls ==
    {Call(None, bDep, None, rDep, None, None, canc) :
        bDep \in {None, GBTT},
        rDep \in {None} \cup Around(GBTT),
        canc \in BOOLEAN}

DsDestCalls ==
    {Call(BookedArr, None, rArr, None, None, None, canc) :
        rArr \in {None, Shift(BookedArr, 1)},
        canc \in BOOLEAN}

\* A service detail: its locations, by station.
DsDetails ==
    {[locations |-> [crs \in {ORIGIN, DEST} |-> IF crs = ORIGIN THEN o ELSE d]] :
        o \in DsOriginCalls \cup {Null}, d \in DsDestCalls \cup {Null}}

\* The probing loop reads only whether a detail has a call at DEST: these
\* details stand for all of them there.
ProbeDetails ==
    {detail \in DsDetails :
        /\ detail.locations[ORIGIN] = Null
        /\ detail.locations[DEST] \in {Null, Call(BookedArr, None, None, None, None, None, FALSE)}}

NowTimes == {Shift(GBTT, k) : k \in 0..(SWITCH_GRACE_MINS + MaxDelta + 1)}

findCall(crs, service) == service.locations[crs]

\* searchCandidates: only the services booked to leave at GBTT are kept
bookedFilter(services) ==
    SelectSeq(services, LAMBDA x : x.gbttBookedDeparture = GBTT)

MinOf(S) == CHOOSE j \in S : \A k \in S : j <= k

\* services[0] || null
FirstOrNull(services) == IF Len(services) > 0 THEN services[1] ELSE Null

\* fetchForDate, filtered: services.find(destination is DEST) || services[0] || null
chooseFiltered(services) ==
    LET hits == {i \in 1..Len(services) : services[i].destIsDest}
    IN IF hits # {} THEN services[MinOf(hits)] ELSE FirstOrNull(services)

\* fetchForDate, unfiltered: the next of the first 5 services, from position
\* i on, that has serviceUid and runDate (the others are passed over); 0 if none
NextProbe(services, i) ==
    LET limit == IF Len(services) < 5 THEN Len(services) ELSE 5
        able == {j \in i..limit : services[j].hasIds}
    IN IF able = {} THEN 0 ELSE MinOf(able)

\* The payloads fetchForDate returns (generatedAt, the ids and the URLs are
\* left out).
NotFoundPayload(date) ==
    [date |-> date, status |-> "not_found",
     note |-> "Booked service not found in search results."]

\* a payload whose status is classified only while history.jsonl is empty
FoundPayload_FromHistory(date, detail) ==
    [date |-> date,
     origin |-> callInfo(findCall(ORIGIN, detail)),
     destination |-> callInfo(findCall(DEST, detail)),
     status |-> IF historyLog # <<>> THEN "on_time"
                ELSE overallStatus(callInfo(findCall(ORIGIN, detail)),
                                   callInfo(findCall(DEST, detail)))]

FoundPayload(date, detail) ==
    LET origin == callInfo(findCall(ORIGIN, detail))
        dest == callInfo(findCall(DEST, detail))
    IN [date |-> date, origin |-> origin, destination |-> dest,
        status |-> overallStatus(origin, dest)]

\* The record main's catch writes.
ErrorSnapshot == [error |-> "Error", when |-> dsClock]

\* todayPayload?.origin || null, todayPayload?.destination
PayloadOrigin(pl) == IF "origin" \in DOMAIN pl THEN pl.origin ELSE Null
PayloadDest(pl) == IF "destination" \in DOMAIN pl THEN pl.destination ELSE Null

\* a variant that takes the observed departure even when cancelled
thresholdHHMM_IgnoreCancel(todayPayload) ==
    LET origin == PayloadOrigin(todayPayload)
        booked == IF origin # Null /\ Truthy(origin.bookedDeparture)
                  THEN origin.bookedDeparture ELSE GBTT
        rtDep == IF origin # Null THEN origin.realtimeDeparture ELSE None
    IN Or2(rtDep, booked)

\* shouldSwitchToTomorrow / shouldSwitch: thresholdHHMM
thresholdHHMM(todayPayload) ==
    LET origin == PayloadOrigin(todayPayload)
        booked == IF origin # Null /\ Truthy(origin.bookedDeparture)
                  THEN origin.bookedDeparture ELSE GBTT
        rtDep == IF origin # Null THEN origin.realtimeDeparture ELSE None
        cancelled == OptCancelled(origin) \/ OptCancelled(PayloadDest(todayPayload))
    IN IF cancelled THEN booked ELSE Or2(rtDep, booked)

\* part_001: shouldSwitchToTomorrow
shouldSwitchToTomorrow(nowHHMM, todayPayload) ==
    hhmmToMinutes(nowHHMM) >=
        hhmmToMinutes(thresholdHHMM(todayPayload)) + SWITCH_GRACE_MINS

\* part_000: shouldSwitch, after its first line
shouldSwitch(nowHHMM, todayPayload) ==
    hhmmToMinutes(nowHHMM) >=
        hhmmToMinutes(thresholdHHMM(todayPayload)) + SWITCH_GRACE_MINS

\* a variant that applies the threshold rule to a not_found today as well
switchDecision_NoShortcut(script, nowHHMM, todayPayload) ==
    [switch |-> IF script = "part_001"
                THEN shouldSwitchToTomorrow(nowHHMM, todayPayload)
                ELSE shouldSwitch(nowHHMM, todayPayload),
     evaluated |-> TRUE]

\* main: switchNow, and whether the threshold rule was computed for it.
\* part_001 tests not_found in main, part_000 in shouldSwitch's first line.
switchDecision(script, nowHHMM, todayPayload) ==
    IF todayPayload.status = "not_found"
    THEN [switch |-> TRUE, evaluated |-> FALSE]
    ELSE [switch |-> IF script = "part_001"
                     THEN shouldSwitchToTomorrow(nowHHMM, todayPayload)
                     ELSE shouldSwitch(nowHHMM, todayPayload),
          evaluated |-> TRUE]

\* a variant that fetches tomorrow whatever was decided
fetchesTomorrow_Always(switchNow) == TRUE

\* main: payload = switchNow ? await fetchForDate(tomorrow) : todayPayload
fetchesTomorrow(switchNow) == switchNow

DsInit ==
    /\ dsScript \in {"part_001", "part_000"}
    /\ dsCred \in [USER : BOOLEAN, PASS : BOOLEAN]
    /\ dsNow \in NowTimes
    /\ dsClock = 1 /\ dsRerun = NoRerun
    /\ dsPc = "start" /\ dsTarget = "today"
    /\ dsFiltered = FALSE /\ dsServices = <<>> /\ dsIdx = 0 /\ dsChosen = Null
    /\ dsToday = Null /\ dsPayload = Null /\ dsSwitch = None /\ dsRuleEval = FALSE
    /\ dsSeen = [day \in {"today", "tomorrow"} |-> Null]
    /\ dsLookups = <<>>
    /\ statusJson = PreviousSnapshot /\ historyLog = <<>>
    /\ clsIn = ClsIdle /\ clsOut = ClsNone
    /\ XfIdle
    /\ DtIdle
    /\ PqIdle
    /\ CfIdle

\* httpJson: a lookup fails, or answers with a body.
Failure == [failed |-> TRUE]

Answer(body) == [failed |-> FALSE, body |-> body]

\* The responses the two-run specification goes through: searches with at
\* most one service, booked at GBTT; details whose origin call is missing, on
\* time, observed a minute late or cancelled, with or without a call at DEST.
ReplaySearches ==
    {js \in SearchResponses :
        Len(js) <= 1 /\ \A i \in 1..Len(js) : js[i].gbttBookedDeparture = GBTT}

ReplayDetails ==
    {[locations |-> [crs \in {ORIGIN, DEST} |-> IF crs = ORIGIN THEN o ELSE dc]] :
        o \in {Null,
               Call(None, GBTT, None, None, None, None, FALSE),
               Call(None, GBTT, None, Shift(GBTT, 1), None, None, FALSE),
               Call(None, GBTT, None, None, None, None, TRUE)},
        dc \in {Null, Call(BookedArr, None, None, None, None, None, FALSE)}}

\* What the provider answers to a lookup: anything it may, and on a second
\* run with identical responses what it answered to the same lookup of the
\* first run.
Provider(lookup, bodies, replayed) ==
    LET offered == IF dsRerun.run = 0 THEN bodies ELSE bodies \cap replayed
        all == {Failure} \cup {Answer(b) : b \in offered}
    IN IF dsRerun.run < 2 \/ ~dsRerun.same THEN all
       ELSE {r \in all : /\ dsRerun.at <= Len(dsRerun.tape)
                         /\ dsRerun.tape[dsRerun.at].lookup = lookup
                         /\ dsRerun.tape[dsRerun.at].r = r}

\* The answer is kept on a first run, and ticked off on a second.
Heard(lookup, r) ==
    dsRerun' = CASE dsRerun.run = 1 /\ dsRerun.same ->
                      [dsRerun EXCEPT !.tape = Append(@, [lookup |-> lookup, r |-> r])]
                 [] dsRerun.run = 2 /\ dsRerun.same -> [dsRerun EXCEPT !.at = @ + 1]
                 [] OTHER -> dsRerun

\* A lookup for the date in hand is issued.
LogLookup ==
    dsLookups' = IF Len(dsLookups) > 0 /\ dsLookups[Len(dsLookups)] = dsTarget
                 THEN dsLookups ELSE Append(dsLookups, dsTarget)

\* fetchForDate goes on to its next await.
Goto(pc, filtered, services, idx, chosen) ==
    /\ dsPc' = pc
    /\ dsFiltered' = filtered /\ dsServices' = services
    /\ dsIdx' = idx /\ dsChosen' = chosen
    /\ UNCHANGED <<dsMain, files>>

\* a catch that writes status.json and leaves history.jsonl alone
Throw_NoRecord ==
    /\ statusJson' = ErrorSnapshot
    /\ UNCHANGED historyLog
    /\ dsPc' = "failed"
    /\ dsFiltered' = FALSE /\ dsServices' = <<>> /\ dsIdx' = 0 /\ dsChosen' = Null
    /\ UNCHANGED dsMain

\* An exception reaches main's catch: the error record is written to
\* status.json and appended to history.jsonl.
Throw ==
    /\ statusJson' = ErrorSnapshot
    /\ historyLog' = Append(historyLog, ErrorSnapshot)
    /\ dsPc' = "failed"
    /\ dsFiltered' = FALSE /\ dsServices' = <<>> /\ dsIdx' = 0 /\ dsChosen' = Null
    /\ UNCHANGED dsMain

\* fetchForDate returns pl to main.  After today's fetch main decides, and
\* either starts tomorrow's fetch or keeps today's payload.
Return(pl) ==
    /\ dsFiltered' = FALSE /\ dsServices' = <<>> /\ dsIdx' = 0 /\ dsChosen' = Null
    /\ UNCHANGED files
    /\ IF dsTarget = "today"
       THEN LET dec == switchDecision(dsScript, dsNow, pl)
            IN /\ dsToday' = pl
               /\ dsSwitch' = <<dec.switch>>
               /\ dsRuleEval' = dec.evaluated
               /\ IF fetchesTomorrow(dec.switch)
                  THEN dsTarget' = "tomorrow" /\ dsPc' = "searchFiltered"
                       /\ dsPayload' = Null
                  ELSE dsTarget' = dsTarget /\ dsPc' = "write"
                       /\ dsPayload' = pl
       ELSE /\ dsPayload' = pl
            /\ dsPc' = "write"
            /\ UNCHANGED <<dsToday, dsSwitch, dsRuleEval, dsTarget>>

\* fetchForDate once chosen is settled: not_found, or the detail lookup.
\* Without a runDate, runDate.replace throws.  services is not read again
\* once chosen is settled.
AfterChosen(filtered, chosen) ==
    IF chosen = Null THEN Return(NotFoundPayload(dsTarget))
    ELSE IF ~chosen.hasIds THEN Throw
    ELSE Goto("detail", filtered, <<>>, 0, chosen)

\* main: !USER || !PASS
missingCredential_UserOnly(cred) == ~cred.USER

missingCredential(cred) == ~cred.USER \/ ~cred.PASS

\* The script starts: the credential check, nowHHMM, today, tomorrow.
DsStart ==
    /\ dsPc = "start"
    /\ UNCHANGED <<clsVars, xfVars, dtVars, pqVars, cfVars, dsEnv, dsSeen, dsLookups, dsRerun>>
    /\ IF ~missingCredential(dsCred)
       THEN Goto("searchFiltered", FALSE, <<>>, 0, Null)
       ELSE IF dsScript = "part_000"
            THEN /\ dsPc' = "exit"
                 /\ UNCHANGED <<dsLocals, dsMain, files>>
            ELSE Throw

\* searchCandidates: the filtered search answers, or fails.
DsSearchFiltered ==
    /\ dsPc = "searchFiltered"
    /\ LogLookup
    /\ UNCHANGED <<clsVars, xfVars, dtVars, pqVars, cfVars, dsEnv, dsSeen>>
    /\ \E r \in Provider("searchFiltered", SearchResponses, ReplaySearches) :
        /\ Heard("searchFiltered", r)
        /\ IF r.failed
           THEN Goto("searchUnfiltered", FALSE, <<>>, 0, Null)
           ELSE LET svcs == bookedFilter(r.body)
                IN AfterChosen(TRUE, chooseFiltered(svcs))

\* After the probing loop found nothing: chosen = services[0] || null.
ProbeFrom(services, i) ==
    LET j == NextProbe(services, i)
    IN IF j = 0 THEN AfterChosen(FALSE, FirstOrNull(services))
       ELSE Goto("probe", FALSE, services, j, Null)

\* searchCandidates: the unfiltered search answers, or fails too.
DsSearchUnfiltered ==
    /\ dsPc = "searchUnfiltered"
    /\ LogLookup
    /\ UNCHANGED <<clsVars, xfVars, dtVars, pqVars, cfVars, dsEnv, dsSeen>>
    /\ \E r \in Provider("searchUnfiltered", SearchResponses, ReplaySearches) :
        /\ Heard("searchUnfiltered", r)
        /\ IF r.failed THEN Throw ELSE ProbeFrom(bookedFilter(r.body), 1)

\* fetchForDate, unfiltered: the detail of one candidate is looked up to see
\* whether it calls at DEST.
DsProbe ==
    /\ dsPc = "probe"
    /\ LogLookup
    /\ UNCHANGED <<clsVars, xfVars, dtVars, pqVars, cfVars, dsEnv, dsSeen>>
    /\ \E r \in Provider("probe", ProbeDetails, ReplayDetails) :
        /\ Heard("probe", r)
        /\ IF r.failed
           THEN ProbeFrom(dsServices, dsIdx + 1)
           ELSE IF findCall(DEST, r.body) # Null
           THEN Goto("detail", FALSE, <<>>, 0, dsServices[dsIdx])
           ELSE ProbeFrom(dsServices, dsIdx + 1)

\* fetchForDate: the detail of the chosen service, then callInfo and
\* overallStatus.
DsDetail ==
    /\ dsPc = "detail"
    /\ LogLookup
    /\ UNCHANGED <<clsVars, xfVars, dtVars, pqVars, cfVars, dsEnv>>
    /\ \E r \in Provider("detail", DsDetails, ReplayDetails) :
        /\ Heard("detail", r)
        /\ IF r.failed
           THEN Throw /\ UNCHANGED dsSeen
           ELSE /\ dsSeen' = [dsSeen EXCEPT ![dsTarget] = r.body]
                /\ Return(FoundPayload(dsTarget, r.body))

\* main: status.json is written and the record appended to history.jsonl.
DsWrite ==
    /\ dsPc = "write"
    /\ statusJson' = dsPayload
    /\ historyLog' = Append(historyLog, dsPayload)
    /\ dsPc' = "done"
    /\ UNCHANGED <<clsVars, xfVars, dtVars, pqVars, cfVars, dsEnv, dsLocals, dsMain, dsSeen, dsLookups,
                   dsRerun>>

DsNext ==
    \/ DsStart
    \/ DsSearchFiltered
    \/ DsSearchUnfiltered
    \/ DsProbe
    \/ DsDetail
    \/ DsWrite

SpecDay == DsInit /\ [][DsNext]_vars

\* The same runs with what the code schedules: the script takes its own
\* steps (the start, and the write once the payload is in hand), while a
\* step that awaits httpJson is taken only if the provider answers or the
\* connection fails, since fetch is called without a timeout or an abort
\* signal.
SpecDayAwaiting == DsInit /\ [][DsNext]_vars /\ WF_vars(DsStart) /\ WF_vars(DsWrite)

\* Two runs of part_001 one after the other, with the same environment, the
\* same `now` and the same responses; status.json and history.jsonl stay on
\* disk in between.
DsInitTwice ==
    /\ dsScript = "part_001"
    /\ dsCred \in [USER : BOOLEAN, PASS : BOOLEAN]
    /\ dsNow \in NowTimes
    /\ dsClock = 1
    /\ dsRerun = [run |-> 1, tape |-> <<>>, at |-> 1, first |-> Null, same |-> TRUE,
                  earlier |-> Null]
    /\ dsPc = "start" /\ dsTarget = "today"
    /\ dsFiltered = FALSE /\ dsServices = <<>> /\ dsIdx = 0 /\ dsChosen = Null
    /\ dsToday = Null /\ dsPayload = Null /\ dsSwitch = None /\ dsRuleEval = FALSE
    /\ dsSeen = [day \in {"today", "tomorrow"} |-> Null]
    /\ dsLookups = <<>>
    /\ statusJson = PreviousSnapshot /\ historyLog = <<>>
    /\ clsIn = ClsIdle /\ clsOut = ClsNone
    /\ XfIdle
    /\ DtIdle
    /\ PqIdle
    /\ CfIdle

\* The first run is over: the script is started again, a moment later.
DsAgain ==
    /\ dsRerun.run = 1
    /\ dsPc \in {"done", "failed", "exit"}
    /\ dsRerun' = [dsRerun EXCEPT !.run = 2, !.first = statusJson]
    /\ dsClock' = dsClock + 1
    /\ dsPc' = "start" /\ dsTarget' = "today"
    /\ dsFiltered' = FALSE /\ dsServices' = <<>> /\ dsIdx' = 0 /\ dsChosen' = Null
    /\ dsToday' = Null /\ dsPayload' = Null /\ dsSwitch' = None /\ dsRuleEval' = FALSE
    /\ dsSeen' = [day \in {"today", "tomorrow"} |-> Null]
    /\ dsLookups' = <<>>
    /\ UNCHANGED <<clsVars, xfVars, dtVars, pqVars, cfVars, dsScript, dsCred, dsNow, files>>

DsNextTwice ==
    \/ DsNext
    \/ DsAgain

SpecTwice == DsInitTwice /\ [][DsNextTwice]_vars

\* Two runs of part_001 on the same day, the second no earlier than the
\* first, each with whatever the provider answers at its time; status.json
\* and history.jsonl stay on disk in between.
DsInitLater ==
    /\ dsScript = "part_001"
    /\ dsCred = [USER |-> TRUE, PASS |-> TRUE]
    /\ dsNow \in NowTimes
    /\ dsClock = 1
    /\ dsRerun = [run |-> 1, tape |-> <<>>, at |-> 1, first |-> Null, same |-> FALSE,
                  earlier |-> Null]
    /\ dsPc = "start" /\ dsTarget = "today"
    /\ dsFiltered = FALSE /\ dsServices = <<>> /\ dsIdx = 0 /\ dsChosen = Null
    /\ dsToday = Null /\ dsPayload = Null /\ dsSwitch = None /\ dsRuleEval = FALSE
    /\ dsSeen = [day \in {"today", "tomorrow"} |-> Null]
    /\ dsLookups = <<>>
    /\ statusJson = PreviousSnapshot /\ historyLog = <<>>
    /\ clsIn = ClsIdle /\ clsOut = ClsNone
    /\ XfIdle
    /\ DtIdle
    /\ PqIdle
    /\ CfIdle

\* The first run is over: the script is started again later that day.  What
\* the first run held for today and what it decided is remembered.
DsLater ==
    /\ dsRerun.run = 1
    /\ dsPc \in {"done", "failed", "exit"}
    /\ dsRerun' = [dsRerun EXCEPT !.run = 2, !.first = statusJson,
                                  !.earlier = [today |-> dsToday, switch |-> dsSwitch]]
    /\ \E later \in NowTimes :
        /\ hhmmToMinutes(later) >= hhmmToMinutes(dsNow)
        /\ dsNow' = later
    /\ dsClock' = dsClock + 1
    /\ dsPc' = "start" /\ dsTarget' = "today"
    /\ dsFiltered' = FALSE /\ dsServices' = <<>> /\ dsIdx' = 0 /\ dsChosen' = Null
    /\ dsToday' = Null /\ dsPayload' = Null /\ dsSwitch' = None /\ dsRuleEval' = FALSE
    /\ dsSeen' = [day \in {"today", "tomorrow"} |-> Null]
    /\ dsLookups' = <<>>
    /\ UNCHANGED <<clsVars, xfVars, dtVars, pqVars, cfVars, dsScript, dsCred, files>>

DsNextLater ==
    \/ DsNext
    \/ DsLater

SpecRollover == DsInitLater /\ [][DsNextLater]_vars

\* ----------------------------------------------------- day selector properties
\* Stated over the details the provider sent (dsSeen) and the lookups issued
\* (dsLookups), with times compared as written.

MinuteOfDay(s) == HourOf(s) * 60 + MinuteOf(s)

CallCancelled(call) == call # Null /\ call.isCancelled

ObservedDepLater(call) ==
    /\ call # Null
    /\ Truthy(call.gbttBookedDeparture) /\ Truthy(call.realtimeDeparture)
    /\ LaterThan(call.realtimeDeparture, call.gbttBookedDeparture)

ObservedDepEarlier(call) ==
    /\ call # Null
    /\ Truthy(call.gbttBookedDeparture) /\ Truthy(call.realtimeDeparture)
    /\ LaterThan(call.gbttBookedDeparture, call.realtimeDeparture)

ObservedArrLater(call) ==
    /\ call # Null
    /\ Truthy(call.gbttBookedArrival) /\ Truthy(call.realtimeArrival)
    /\ LaterThan(call.realtimeArrival, call.gbttBookedArrival)

ObservedArrEarlier(call) ==
    /\ call # Null
    /\ Truthy(call.gbttBookedArrival) /\ Truthy(call.realtimeArrival)
    /\ LaterThan(call.gbttBookedArrival, call.realtimeArrival)

\* The status the classification rule gives to the detail of one date.
ClassOf(detail) ==
    LET o == detail.locations[ORIGIN]
        d == detail.locations[DEST]
    IN IF CallCancelled(o) \/ CallCancelled(d) THEN "cancelled"
       ELSE IF ObservedDepLater(o) \/ ObservedArrLater(d) THEN "delayed"
       ELSE IF ObservedDepEarlier(o) \/ ObservedArrEarlier(d) THEN "early"
       ELSE "on_time"

TodayFound == dsToday # Null /\ dsToday.status # "not_found"
TodayNotFound == dsToday # Null /\ dsToday.status = "not_found"

TodayCancelled ==
    \/ CallCancelled(dsSeen["today"].locations[ORIGIN])
    \/ CallCancelled(dsSeen["today"].locations[DEST])

\* today's observed departure at the origin, None when there is none
TodayObservedDep ==
    LET o == dsSeen["today"].locations[ORIGIN]
    IN IF o = Null THEN None ELSE o.realtimeDeparture

\* today's booked departure: the one the detail carries, else the booked
\* time the script is configured with
TodayBookedDep ==
    LET o == dsSeen["today"].locations[ORIGIN]
    IN IF o # Null /\ Truthy(o.gbttBookedDeparture)
       THEN o.gbttBookedDeparture ELSE GBTT

TodayThreshold ==
    IF ~TodayCancelled /\ Truthy(TodayObservedDep)
    THEN TodayObservedDep ELSE TodayBookedDep

\* C1: for a today's snapshot whose service was found, the decision is to
\* switch exactly when now >= threshold + SWITCH_GRACE_MINS in minutes of the
\* day, the threshold being the observed departure when nothing is cancelled
\* and one exists, and the booked departure otherwise.
C1_SwitchRule ==
    (TodayFound /\ dsSwitch # None) =>
        (dsSwitch[1] <=>
            MinuteOfDay(dsNow) >= MinuteOfDay(TodayThreshold) + SWITCH_GRACE_MINS)

\* C1 witness: not cancelled, no observed departure, now = booked + grace:
\* the run has switched to tomorrow.
C1_Witness ==
    /\ TodayFound /\ dsSwitch = <<TRUE>>
    /\ ~TodayCancelled /\ TodayObservedDep = None
    /\ MinuteOfDay(dsNow) = MinuteOfDay(TodayBookedDep) + SWITCH_GRACE_MINS

\* C2: when today's status is not_found the run switches to tomorrow without
\* computing the threshold rule, and a snapshot it writes is dated tomorrow,
\* with the status not_found or the classification of tomorrow's detail.
C2_NotFoundSwitches ==
    TodayNotFound =>
        /\ dsSwitch = <<TRUE>>
        /\ ~dsRuleEval
        /\ dsSeen["today"] = Null
        /\ "date" \in DOMAIN statusJson =>
            /\ statusJson.date = "tomorrow"
            /\ \/ statusJson.status = "not_found" /\ dsSeen["tomorrow"] = Null
               \/ /\ dsSeen["tomorrow"] # Null
                  /\ statusJson.status = ClassOf(dsSeen["tomorrow"])

\* C2 witness: today not found before threshold + grace, and tomorrow's
\* snapshot, classified from tomorrow's detail, written.
C2_Witness ==
    /\ TodayNotFound /\ dsPc = "done"
    /\ MinuteOfDay(dsNow) < MinuteOfDay(GBTT) + SWITCH_GRACE_MINS
    /\ statusJson.date = "tomorrow"
    /\ dsSeen["tomorrow"] # Null
    /\ statusJson.status = "delayed"

\* C3: lookups are for today first; one for tomorrow is issued only once
\* today's result is known and the decision is to switch; when the decision
\* is not to switch, none is issued for tomorrow and today's snapshot is the
\* one written.
C3_TodayFirst ==
    /\ dsLookups \in {<<>>, <<"today">>, <<"today", "tomorrow">>}
    /\ dsLookups = <<"today", "tomorrow">> =>
        (dsToday # Null /\ dsSwitch = <<TRUE>>)
    /\ dsSwitch = <<FALSE>> =>
        /\ dsLookups = <<"today">>
        /\ dsPc \in {"write", "done"}
        /\ dsPayload = dsToday
        /\ dsPc = "done" => statusJson = dsToday

\* C3 witness: a run that decided not to switch and wrote today's snapshot.
C3_Witness ==
    /\ dsPc = "done" /\ dsSwitch = <<FALSE>>
    /\ statusJson = dsToday /\ dsLookups = <<"today">>

\* ============================================================ transfer planner
\* xfer_plan.js, SRC -> CLJ -> IMW: the direct option, then the first legs
\* inside the window, each with its connections.  Three scripts share the
\* flow: part_003 and part_005 (today only, detailBySvc) and the first script
\* of xfer_plan.js (cutover date, getServiceDetail).  Each action is one
\* stretch of main between two awaits; a search result is read one service
\* at a time, as the loops do, and ends where the provider ended it.

\* Longest search result for the direct option, for first legs, and for the
\* connections of one leg.
MaxDirect == 2
MaxCand == 4
MaxConnCand == 3

WINDOW_START == HHMM(7, 25)
WINDOW_END == HHMM(8, 45)

\* parseInt(hhmm.slice(0,2),10) * 60 + parseInt(hhmm.slice(2,4),10)
toMin(hhmm) == (hhmm[1] * 10 + hhmm[2]) * 60 + (hhmm[3] * 10 + hhmm[4])

\* A service of a search result: dep is
\* s.locationDetail.gbttBookedDeparture || s.gbttBookedDeparture.
XfService(dep, serviceUid, rid) ==
    [dep |-> dep, serviceUid |-> serviceUid, rid |-> rid]

DirectCands ==
    {XfService(dep, uid, rid) :
        dep \in {WINDOW_START, Shift(WINDOW_START, 5)},
        uid \in BOOLEAN, rid \in BOOLEAN}

\* Two timetables a run may meet.  In the first the booked departures of the
\* first-leg services sit on the edges of the window and observed times
\* differ from booked ones; in the second two services leave inside the
\* window and nothing is observed yet.
EdgeTimetable ==
    [legDeps |-> {None, WINDOW_START, WINDOW_END, Shift(WINDOW_END, 1)},
     observed |-> TRUE]

OrderTimetable ==
    [legDeps |-> {WINDOW_START, Shift(WINDOW_START, 1), WINDOW_END},
     observed |-> FALSE]

LegCands ==
    {XfService(dep, uid, rid) :
        dep \in xfTimetable.legDeps,
        uid \in BOOLEAN, rid \in BOOLEAN}

ConnCands ==
    {XfService(None, uid, rid) : uid \in BOOLEAN, rid \in BOOLEAN}

\* Stops of the details the provider sends.
DirectArr == HHMM(7, 55)
CljArr == HHMM(8, 9)
CljDep == HHMM(8, 10)
ImwArr == HHMM(8, 30)

DirectSrcStops ==
    {Call(None, WINDOW_START, None, Shift(WINDOW_START, 2), None, None, FALSE)}

DirectImwStops == {Call(DirectArr, None, None, None, None, None, FALSE)}

\* the origin stop of a first leg's detail carries the candidate's booked time
LegSrcStops(svc) ==
    {EmptyStop, Call(None, svc.dep, None, None, None, None, FALSE)}

\* the observed times that go with a booked time
ObservedFor(booked) ==
    IF xfTimetable.observed THEN {None, Shift(booked, 1)} ELSE {None}

LegCljStops ==
    {EmptyStop} \cup
    {Call(bArr, None, rArr, None, None, None, FALSE) :
        bArr \in {None, CljArr}, rArr \in ObservedFor(CljArr)}

ConnCljStops ==
    {EmptyStop} \cup
    {Call(None, bDep, None, rDep, None, None, FALSE) :
        bDep \in {None, CljDep}, rDep \in ObservedFor(CljDep)}

ConnImwStops == {EmptyStop, Call(ImwArr, None, None, None, None, None, FALSE)}

\* svcs.find(...): the first service at one of the positions hits, or Null
\* (undefined) when there is none
FindFirst(svcs, hits) == IF hits = {} THEN Null ELSE svcs[MinOf(hits)]

OrElse(a, b) == IF a # Null THEN a ELSE b

\* main: svc / directSvc, the service the direct option is read from
directChoice(script, svcs) ==
    LET at == {i \in 1..Len(svcs) : svcs[i].dep = WINDOW_START}
        withRid == {i \in 1..Len(svcs) : svcs[i].rid}
    IN IF script = "part_005"
       THEN OrElse(FindFirst(svcs, at \cap withRid),
            OrElse(FindFirst(svcs, withRid), FirstOrNull(svcs)))
       ELSE OrElse(FindFirst(svcs, at), FirstOrNull(svcs))

\* main: if (svc) / if (directSvc && directSvc.serviceUid)
directLookedUp(script, svc) ==
    /\ svc # Null
    /\ script = "xfer_plan" => svc.serviceUid

\* main: out.direct
DirectOption(o, iw) ==
    [status |-> statusFrom(o, iw),
     srcDep |-> o.gbttBookedDeparture, srcDepReal |-> o.realtimeDeparture,
     imwArr |-> iw.gbttBookedArrival, imwArrReal |-> iw.realtimeArrival]

\* a variant that lets the window start at WINDOW_START itself
inWindow_FromStart(dep) ==
    /\ Truthy(dep)
    /\ toMin(dep) >= toMin(WINDOW_START)
    /\ toMin(dep) <= toMin(WINDOW_END)

\* main, first-leg filter: dep && toMin(dep) > toMin(WINDOW_START) && ... <=
inWindow(dep) ==
    /\ Truthy(dep)
    /\ toMin(dep) > toMin(WINDOW_START)
    /\ toMin(dep) <= toMin(WINDOW_END)

\* main: the filter(s) that make `after`
legFilter(script, svc) ==
    /\ inWindow(svc.dep)
    /\ script = "part_005" => svc.rid

\* main: the first-leg candidates passed over inside the loop
legSkipped(script, svc) == script # "part_005" /\ ~svc.serviceUid

\* main: the connection candidates passed over inside the loop
connSkipped(script, c) ==
    IF script = "part_005" THEN ~c.rid /\ ~c.serviceUid ELSE ~c.serviceUid

\* main: arrMin, depMin
arrMin(cj) == toMin(Or2(cj.realtimeArrival, cj.gbttBookedArrival))
depMin(cjs) == toMin(Or2(cjs.realtimeDeparture, cjs.gbttBookedDeparture))

\* a variant without the one minute
tooEarly_NoMargin(dep, arr) == dep < arr

\* a variant asking for more than one minute
tooEarly_Strict(dep, arr) == dep <= arr + 1

\* main: if (depMin < arrMin + 1) continue
tooEarly(dep, arr) == dep < arr + 1

\* a variant that lets a fourth leg in
legsFull_Four(legs) == Len(legs) >= 4

\* main: if (legs.length >= 3) break
legsFull(legs) == Len(legs) >= 3

\* a variant that lets a third connection in
connsFull_Three(conns) == Len(conns) >= 3

\* main: if (conns.length >= 2) break
connsFull(conns) == Len(conns) >= 2

\* main: the record pushed to conns
Connection(cjs, imw) ==
    [status |-> statusFrom(cjs, imw),
     cljDep |-> cjs.gbttBookedDeparture, cljDepReal |-> cjs.realtimeDeparture,
     imwArr |-> imw.gbttBookedArrival, imwArrReal |-> imw.realtimeArrival]

\* main: the record pushed to legs; cand remembers the booked departure the
\* search gave for the service
Leg(cur, conns) ==
    [srcDep |-> cur.o.gbttBookedDeparture, srcDepReal |-> cur.o.realtimeDeparture,
     cljArr |-> cur.cj.gbttBookedArrival, cljArrReal |-> cur.cj.realtimeArrival,
     connections |-> conns, cand |-> cur.cand]

XfInit ==
    /\ xfScript \in {"part_003", "part_005", "xfer_plan"}
    /\ xfPc = "directSearch"
    /\ xfOut = [direct |-> Null, legs |-> <<>>]
    /\ xfFile = PreviousPlan
    /\ xfDirectSvc = Null
    /\ xfI = 0 /\ xfLegs = <<>>
    /\ xfSvc = Null /\ xfCur = Null
    /\ xfJ = 0 /\ xfConns = <<>> /\ xfC = Null
    /\ xfLast = Null /\ xfSeen = Null
    /\ xfTimetable = EdgeTimetable
    /\ clsIn = ClsIdle /\ clsOut = ClsNone
    /\ DsIdle
    /\ DtIdle
    /\ PqIdle
    /\ CfIdle

xfOther == <<clsVars, dsVars, dtVars, pqVars, cfVars, xfScript, xfFile, xfTimetable>>

\* What is remembered of a lookup: the step that made it, whether it failed,
\* the services or stops read from it, and legs, conns and the position in `all` as they
\* were when it was made.
Seen(step, failed, stops) ==
    [step |-> step, failed |-> failed, stops |-> stops,
     legs |-> xfLegs, conns |-> xfConns, at |-> xfI]

\* main: a first leg goes on only with the booked departure of its origin
\* stop and the booked arrival of its interchange stop
legUsable_OriginOnly(o, cj) == Truthy(o.gbttBookedDeparture)

legUsable(o, cj) ==
    Truthy(o.gbttBookedDeparture) /\ Truthy(cj.gbttBookedArrival)

\* The direct option: the search answers, or fails.
XfDirectSearch ==
    /\ xfPc = "directSearch"
    /\ \/ /\ xfPc' = "legSearch" /\ xfDirectSvc' = Null
          /\ xfSeen' = Seen("directSearch", TRUE, Null)
       \/ \E svcs \in SeqsUpTo(DirectCands, MaxDirect) :
            LET svc == directChoice(xfScript, svcs)
            IN /\ IF directLookedUp(xfScript, svc)
                  THEN xfPc' = "directDetail" /\ xfDirectSvc' = svc
                  ELSE xfPc' = "legSearch" /\ xfDirectSvc' = Null
               /\ xfSeen' = Seen("directSearch", FALSE, svcs)
    /\ UNCHANGED <<xfOther, xfOut, xfLoop, xfConnLoop, xfLast>>

\* The direct option: its detail answers, or fails.
XfDirectDetail ==
    /\ xfPc = "directDetail"
    /\ xfPc' = "legSearch" /\ xfDirectSvc' = Null
    /\ \/ /\ UNCHANGED xfOut
          /\ xfSeen' = Seen("directDetail", TRUE, Null)
       \/ /\ \E o \in DirectSrcStops, iw \in DirectImwStops :
            xfOut' = [xfOut EXCEPT !.direct = DirectOption(o, iw)]
          /\ xfSeen' = Seen("directDetail", FALSE, Null)
    /\ UNCHANGED <<xfOther, xfLoop, xfConnLoop, xfLast>>

\* out.legs = legs, then on to the write
Finish(legs) ==
    /\ xfOut' = [xfOut EXCEPT !.legs = legs]
    /\ xfPc' = "write"

\* the outer catch: legs is dropped, out.legs stays []
LegsAbandoned ==
    /\ xfPc' = "write"
    /\ UNCHANGED xfOut

\* The first-leg search answers, or fails.
XfLegSearch ==
    /\ xfPc = "legSearch"
    /\ \/ /\ LegsAbandoned
          /\ xfSeen' = Seen("legSearch", TRUE, Null)
          /\ UNCHANGED xfLoop
       \/ /\ xfI' = 1 /\ xfLegs' = <<>>
          /\ xfPc' = "legLoop"
          /\ xfSeen' = Seen("legSearch", FALSE, Null)
          /\ UNCHANGED <<xfOut, xfSvc, xfCur>>
    /\ UNCHANGED <<xfOther, xfDirectSvc, xfConnLoop, xfLast>>

\* The head of the first-leg loop: `all` has no service left, or its next
\* one is filtered, then passed over or looked up.  (The slice(0, 6) of
\* xfer_plan.js keeps every service that passes the filter as long as `all`
\* has no more than 6, which MaxCand sees to.)
XfLegNext ==
    /\ xfPc = "legLoop"
    /\ \/ /\ Finish(xfLegs)
          /\ xfI' = 0 /\ UNCHANGED xfSvc
       \/ /\ xfI <= MaxCand
          /\ \E svc \in LegCands :
            IF ~legFilter(xfScript, svc)
            THEN /\ xfI' = xfI + 1
                 /\ UNCHANGED <<xfPc, xfOut, xfSvc>>
            ELSE IF xfScript = "part_005" /\ legsFull(xfLegs)
                 THEN Finish(xfLegs) /\ xfI' = 0 /\ UNCHANGED xfSvc
                 ELSE IF legSkipped(xfScript, svc)
                 THEN xfI' = xfI + 1 /\ UNCHANGED <<xfPc, xfOut, xfSvc>>
                 ELSE xfPc' = "legDetail" /\ xfSvc' = svc
                      /\ UNCHANGED <<xfI, xfOut>>
    /\ xfSeen' = Null
    /\ UNCHANGED <<xfOther, xfDirectSvc, xfLegs, xfCur, xfConnLoop, xfLast>>

\* continue: on to the next service of `all`
LegContinue ==
    /\ xfI' = xfI + 1 /\ xfSvc' = Null /\ xfCur' = Null
    /\ xfPc' = "legLoop"
    /\ UNCHANGED <<xfOut, xfLegs>>

\* main: what a failed first-leg detail lookup does.  part_003 and part_005
\* catch it next to the call and `continue`; xfer_plan.js has no try around
\* the call, so the failure lands in the catch around the whole loop.
legFailureEndsLoop_Always(script) == TRUE

legFailureEndsLoop(script) == script = "xfer_plan"

\* The detail of a first leg answers, or fails.  part_003 and part_005 pass
\* a failed one over; in xfer_plan.js the failure leaves the loop.
XfLegDetail ==
    /\ xfPc = "legDetail"
    /\ \/ /\ IF legFailureEndsLoop(xfScript)
             THEN LegsAbandoned /\ xfSvc' = Null /\ xfI' = 0 /\ xfLegs' = <<>>
                  /\ UNCHANGED xfCur
             ELSE LegContinue
          /\ xfSeen' = Seen("legDetail", TRUE, Null)
       \/ \E o \in LegSrcStops(xfSvc), cj \in LegCljStops :
            /\ xfSeen' = Seen("legDetail", FALSE, [o |-> o, cj |-> cj])
            /\ IF ~legUsable(o, cj)
               THEN LegContinue
               ELSE /\ xfCur' = [o |-> o, cj |-> cj, cand |-> xfSvc.dep]
                    /\ xfPc' = "connSearch"
                    /\ UNCHANGED <<xfOut, xfI, xfLegs, xfSvc>>
    /\ UNCHANGED <<xfOther, xfDirectSvc, xfConnLoop, xfLast>>

\* legs.push, and the test on legs.length that follows it in part_003 and
\* xfer_plan.js (part_005 tests at the head of the loop)
PushLeg(conns) ==
    LET legs == Append(xfLegs, Leg(xfCur, conns))
    IN /\ xfLegs' = legs
       /\ xfSvc' = Null /\ xfCur' = Null
       /\ xfJ' = 0 /\ xfConns' = <<>> /\ xfC' = Null
       /\ IF xfScript # "part_005" /\ legsFull(legs)
          THEN Finish(legs) /\ xfI' = 0
          ELSE xfI' = xfI + 1 /\ xfPc' = "legLoop" /\ UNCHANGED xfOut

\* The connection search of a leg answers, or fails (the leg is then pushed
\* without connections).
XfConnSearch ==
    /\ xfPc = "connSearch"
    /\ \/ /\ PushLeg(<<>>)
          /\ xfSeen' = Seen("connSearch", TRUE, Null)
       \/ /\ xfJ' = 1 /\ xfConns' = <<>> /\ xfC' = Null
          /\ xfPc' = "connLoop"
          /\ xfSeen' = Seen("connSearch", FALSE, Null)
          /\ UNCHANGED <<xfOut, xfI, xfLegs, xfSvc, xfCur>>
    /\ xfLast' = Null
    /\ UNCHANGED <<xfOther, xfDirectSvc>>

\* What is remembered of a decision on a connection candidate: its stops
\* (Null when the lookup failed or was not made) and the outcome.
Decision(stops, accepted) == [stops |-> stops, accepted |-> accepted]

\* The head of the connection loop: `cand` has no service left or the leg
\* has its 2 connections, or the next service is passed over or looked up.
XfConnNext ==
    /\ xfPc = "connLoop"
    /\ \/ PushLeg(xfConns) /\ xfLast' = Null
       \/ /\ xfJ <= MaxConnCand
          /\ ~connsFull(xfConns)
          /\ \E c \in ConnCands :
            IF connSkipped(xfScript, c)
            THEN /\ xfJ' = xfJ + 1
                 /\ xfLast' = Decision(Null, FALSE)
                 /\ UNCHANGED <<xfPc, xfOut, xfI, xfLegs, xfSvc, xfCur, xfConns, xfC>>
            ELSE /\ xfC' = c /\ xfPc' = "connDetail"
                 /\ xfLast' = Null
                 /\ UNCHANGED <<xfOut, xfI, xfLegs, xfSvc, xfCur, xfJ, xfConns>>
    /\ xfSeen' = Null
    /\ UNCHANGED <<xfOther, xfDirectSvc>>

\* continue: on to the next service of `cand`
ConnContinue(conns) ==
    /\ xfConns' = conns /\ xfJ' = xfJ + 1 /\ xfC' = Null
    /\ xfPc' = "connLoop"
    /\ UNCHANGED <<xfOut, xfI, xfLegs, xfSvc, xfCur>>

\* The detail of a connection candidate answers, or fails.  part_003 and
\* part_005 pass a failed one over; in xfer_plan.js the failure ends the
\* connections of the leg.
XfConnDetail ==
    /\ xfPc = "connDetail"
    /\ \/ /\ xfLast' = Decision(Null, FALSE)
          /\ xfSeen' = Seen("connDetail", TRUE, Null)
          /\ IF xfScript = "xfer_plan" THEN PushLeg(xfConns) ELSE ConnContinue(xfConns)
       \/ \E cjs \in ConnCljStops, imw \in ConnImwStops :
            LET stops == [cjs |-> cjs, imw |-> imw]
            IN /\ xfSeen' = Seen("connDetail", FALSE, Null)
               /\ IF ~Truthy(cjs.gbttBookedDeparture) \/ ~Truthy(imw.gbttBookedArrival)
                  THEN xfLast' = Decision(stops, FALSE) /\ ConnContinue(xfConns)
                  ELSE IF tooEarly(depMin(cjs), arrMin(xfCur.cj))
                  THEN xfLast' = Decision(stops, FALSE) /\ ConnContinue(xfConns)
                  ELSE /\ xfLast' = Decision(stops, TRUE)
                       /\ ConnContinue(Append(xfConns, Connection(cjs, imw)))
    /\ UNCHANGED <<xfOther, xfDirectSvc>>

\* main: xfer.json is written.
XfWrite ==
    /\ xfPc = "write"
    /\ xfFile' = xfOut
    /\ xfPc' = "done"
    /\ xfSeen' = Null
    /\ UNCHANGED <<clsVars, dsVars, dtVars, pqVars, cfVars, xfScript, xfOut, xfDirectSvc, xfLoop, xfConnLoop,
                   xfLast, xfTimetable>>

XfNext ==
    \/ XfDirectSearch
    \/ XfDirectDetail
    \/ XfLegSearch
    \/ XfLegNext
    \/ XfLegDetail
    \/ XfConnSearch
    \/ XfConnNext
    \/ XfConnDetail
    \/ XfWrite

SpecXfer == XfInit /\ [][XfNext]_vars

\* The same runs on the day of the second timetable.
XfInitOrder ==
    /\ xfScript \in {"part_003", "part_005", "xfer_plan"}
    /\ xfPc = "directSearch"
    /\ xfOut = [direct |-> Null, legs |-> <<>>]
    /\ xfFile = PreviousPlan
    /\ xfDirectSvc = Null
    /\ xfI = 0 /\ xfLegs = <<>>
    /\ xfSvc = Null /\ xfCur = Null
    /\ xfJ = 0 /\ xfConns = <<>> /\ xfC = Null
    /\ xfLast = Null /\ xfSeen = Null
    /\ xfTimetable = OrderTimetable
    /\ clsIn = ClsIdle /\ clsOut = ClsNone
    /\ DsIdle
    /\ DtIdle
    /\ PqIdle
    /\ CfIdle

SpecXferOrder == XfInitOrder /\ [][XfNext]_vars

\* The same runs, where every lookup made is answered or fails in the end
\* and the script then takes its next step.
SpecXferLive == XfInitOrder /\ [][XfNext]_vars /\ WF_vars(XfNext)

\* ------------------------------------------------- transfer planner properties
\* Stated over the legs the run holds or has written, with times compared as
\* written.

\* minConnection: the minutes a passenger needs at the interchange
MinConnection == 1

\* the observed time, the booked one only when no observed time is there
ObservedOrBooked(observed, booked) == IF observed # None THEN observed ELSE booked

\* The legs emitted: those of legs, of out.legs and of xfer.json.
EmittedLegs ==
    {xfLegs[k] : k \in 1..Len(xfLegs)}
        \cup {xfOut.legs[k] : k \in 1..Len(xfOut.legs)}
        \cup (IF xfFile = PreviousPlan THEN {}
              ELSE {xfFile.legs[k] : k \in 1..Len(xfFile.legs)})

WrittenLegs ==
    IF xfFile = PreviousPlan THEN {}
    ELSE {xfFile.legs[k] : k \in 1..Len(xfFile.legs)}

\* minutes between the first leg's arrival at the interchange and the
\* connection's departure from it
WaitMinutes(arrReal, arrBooked, conn) ==
    MinuteOfDay(ObservedOrBooked(conn.cljDepReal, conn.cljDep))
        - MinuteOfDay(ObservedOrBooked(arrReal, arrBooked))

\* C8: every connection accepted for a first leg leaves the interchange at
\* least MinConnection minutes after the first leg arrives there, each time
\* being the observed one, or the booked one when none was observed.
C8_MinConnection ==
    /\ \A leg \in EmittedLegs : \A k \in 1..Len(leg.connections) :
          WaitMinutes(leg.cljArrReal, leg.cljArr, leg.connections[k]) >= MinConnection
    /\ \A k \in 1..Len(xfConns) :
          WaitMinutes(xfCur.cj.realtimeArrival, xfCur.cj.gbttBookedArrival, xfConns[k])
              >= MinConnection

\* C8 witness: xfer.json holds a leg with an observed arrival and a
\* connection whose observed departure is exactly MinConnection later.
C8_Witness ==
    /\ xfPc = "done"
    /\ \E leg \in WrittenLegs : \E k \in 1..Len(leg.connections) :
          /\ leg.cljArrReal # None /\ leg.cljArrReal # leg.cljArr
          /\ leg.connections[k].cljDepReal # None
          /\ WaitMinutes(leg.cljArrReal, leg.cljArr, leg.connections[k]) = MinConnection

\* the candidate last decided on has the interchange stop with its booked
\* departure and the destination stop with its booked arrival
LastHasStops ==
    /\ Truthy(xfLast.stops.cjs.gbttBookedDeparture)
    /\ Truthy(xfLast.stops.imw.gbttBookedArrival)

LastDeparture ==
    ObservedOrBooked(xfLast.stops.cjs.realtimeDeparture,
                     xfLast.stops.cjs.gbttBookedDeparture)

CurArrival ==
    ObservedOrBooked(xfCur.cj.realtimeArrival, xfCur.cj.gbttBookedArrival)

\* C9: a connection candidate whose detail was read is accepted exactly when
\* it has both stops and its observed-or-booked departure is at least
\* MinConnection after the arrival at the interchange (so 0810 after an
\* observed arrival at 0810 is rejected, 0811 accepted); decisions are taken
\* only while the leg has fewer than 2 connections.
C9_BoundaryAcceptance ==
    (xfLast # Null /\ xfLast.stops # Null) =>
        /\ xfLast.accepted <=>
              /\ LastHasStops
              /\ MinuteOfDay(LastDeparture) >= MinuteOfDay(CurArrival) + MinConnection
        /\ xfLast.accepted =>
              /\ Len(xfConns) <= 2
              /\ xfConns[Len(xfConns)].cljDep = xfLast.stops.cjs.gbttBookedDeparture
              /\ xfConns[Len(xfConns)].cljDepReal = xfLast.stops.cjs.realtimeDeparture

\* C9 witness: in part_003, after an observed arrival at 0810 and one
\* connection already accepted, a candidate leaving at 0811 is accepted.
C9_Witness ==
    /\ xfScript = "part_003"
    /\ xfLast # Null /\ xfLast.stops # Null
    /\ xfCur.cj.realtimeArrival = HHMM(8, 10)
    /\ LastDeparture = HHMM(8, 11)
    /\ xfLast.accepted
    /\ Len(xfConns) = 2

\* C10: every emitted first leg comes from a search candidate whose booked
\* departure is after WINDOW_START and not after WINDOW_END.
C10_WindowedFirstLegs ==
    \A leg \in EmittedLegs :
        /\ leg.cand # None
        /\ LaterThan(leg.cand, WINDOW_START)
        /\ ~LaterThan(leg.cand, WINDOW_END)

\* C10 witness: xfer.json holds three first legs, one from a candidate
\* booked at WINDOW_END itself.
C10_Witness ==
    /\ xfPc = "done"
    /\ Cardinality(DOMAIN xfFile.legs) = 3
    /\ \E leg \in WrittenLegs : leg.cand = WINDOW_END

\* the lists of legs the run holds, has assigned to out.legs, or has written
LegLists ==
    {xfLegs, xfOut.legs} \cup (IF xfFile = PreviousPlan THEN {} ELSE {xfFile.legs})

\* C11: whatever the provider returns, there are never more than 3 first
\* legs, and never more than 2 connections on a leg.
C11_AtMostKLegsMConnections ==
    /\ \A legs \in LegLists : Len(legs) <= 3
    /\ \A leg \in EmittedLegs : Len(leg.connections) <= 2
    /\ Len(xfConns) <= 2

\* C11 witness: xfer.json holds 3 first legs, each with 2 connections.
C11_Witness ==
    /\ xfPc = "done"
    /\ Len(xfFile.legs) = 3
    /\ \A leg \in WrittenLegs : Len(leg.connections) = 2

\* C12: the first legs are listed in ascending order of booked departure at
\* the origin, in whatever order the provider listed the candidates.
C12_LegsAscending ==
    \A legs \in LegLists : \A a, b \in 1..Len(legs) :
        a < b => ~LaterThan(legs[a].srcDep, legs[b].srcDep)

\* The step before read the detail of a first-leg candidate, and the detail
\* has no origin stop or no interchange stop.
LegLacksStop ==
    /\ xfSeen # Null /\ xfSeen.step = "legDetail" /\ ~xfSeen.failed
    /\ xfSeen.stops.o = EmptyStop \/ xfSeen.stops.cj = EmptyStop

\* C13: a first-leg candidate whose detail lacks the origin stop or the
\* interchange stop is skipped entirely: the run is back at the head of the
\* first-leg loop on the next candidate, legs is as it was (so the candidate
\* is neither emitted nor counted towards the 3), and no connection search is
\* under way for it.
C13_LegWithoutStopSkipped ==
    LegLacksStop =>
        /\ xfPc = "legLoop"
        /\ xfLegs = xfSeen.legs
        /\ xfI = xfSeen.at + 1
        /\ xfSvc = Null /\ xfCur = Null
        /\ xfJ = 0 /\ xfConns = <<>>

C13_Witness ==
    /\ LegLacksStop
    /\ xfSeen.stops.cj = EmptyStop /\ xfSeen.stops.o # EmptyStop
    /\ xfSeen.legs # <<>>
    /\ xfPc = "legLoop"

\* The scripts that plan for today only.
TodayOnly == xfScript \in {"part_003", "part_005"}

\* The step before made the lookup `step`, and the lookup failed.
Failed(step) == xfSeen # Null /\ xfSeen.step = step /\ xfSeen.failed

IsolatedFailure ==
    \E step \in {"directSearch", "directDetail", "legDetail", "connSearch", "connDetail"} :
        Failed(step)

\* xfer.json holds the plan of this run.
Written == xfPc = "done" /\ xfFile = xfOut /\ xfFile.legs = xfLegs

C14_Isolated ==
    TodayOnly =>
        /\ (Failed("directSearch") \/ Failed("directDetail")) =>
              xfOut.direct = Null /\ xfPc = "legSearch"
        /\ Failed("legDetail") =>
              /\ xfPc = "legLoop"
              /\ xfLegs = xfSeen.legs /\ xfI = xfSeen.at + 1
        /\ Failed("connDetail") =>
              /\ xfPc = "connLoop"
              /\ xfConns = xfSeen.conns /\ xfCur # Null
              /\ xfLegs = xfSeen.legs /\ xfI = xfSeen.at
        /\ Failed("connSearch") =>
              /\ xfPc \in {"legLoop", "write"}
              /\ Len(xfLegs) = Len(xfSeen.legs) + 1
              /\ SubSeq(xfLegs, 1, Len(xfSeen.legs)) = xfSeen.legs
              /\ xfLegs[Len(xfLegs)].connections = <<>>

C15_DetailFailureSkipsCandidate ==
    xfScript = "xfer_plan" =>
        /\ Failed("legDetail") =>
              /\ xfPc = "legLoop"
              /\ xfLegs = xfSeen.legs /\ xfI = xfSeen.at + 1
        /\ Failed("connDetail") =>
              /\ xfPc = "connLoop"
              /\ xfConns = xfSeen.conns /\ xfLegs = xfSeen.legs

\* ------------------------------------------------------------ detailBySvc
\* One call of detailBySvc(svc, iso) of part_003, part_005 and part_002.
\* Dates are <<year, month, day>>; an error is the text of its message, word
\* by word; a lookup that succeeded has the error None.

IsLeap(y) == (y % 4 = 0 /\ y % 100 # 0) \/ y % 400 = 0

DaysIn(y, m) ==
    IF m = 2 THEN (IF IsLeap(y) THEN 29 ELSE 28)
    ELSE IF m \in {4, 6, 9, 11} THEN 30 ELSE 31

NextDay(date) ==
    LET y == date[1]  m == date[2]  dd == date[3]
    IN IF dd < DaysIn(y, m) THEN <<y, m, dd + 1>>
       ELSE IF m < 12 THEN <<y, m + 1, 1>>
       ELSE <<y + 1, 1, 1>>

PrevDay(date) ==
    LET y == date[1]  m == date[2]  dd == date[3]
    IN IF dd > 1 THEN <<y, m, dd - 1>>
       ELSE IF m > 1 THEN <<y, m - 1, DaysIn(y, m - 1)>>
       ELSE <<y - 1, 12, 31>>

\* setUTCDate(getUTCDate() + days) on midnight UTC of the date
RECURSIVE isoShiftDays(_, _)
isoShiftDays(iso, days) ==
    IF days = 0 THEN iso
    ELSE IF days > 0 THEN isoShiftDays(NextDay(iso), days - 1)
    ELSE isoShiftDays(PrevDay(iso), days + 1)

\* The dates of the runs looked at.
Dates == {<<2024, 2, 29>>, <<2025, 6, 15>>, <<2025, 12, 31>>, <<2026, 1, 1>>}

\* svc.runDate: absent, or a date written with "-" or with "/"
RunDates == {Null} \cup [sep : {"-", "/"}, ymd : Dates]

\* The failures of a lookup: the provider's HTTP errors and a failure of the
\* connection, as fetchJSON words them.
NotFound == <<"HTTP", "404", "Not Found">>

LookupErrors ==
    {NotFound, <<"HTTP", "500", "Internal Server Error">>, <<"ECONNRESET">>}

Answers == {None} \cup LookupErrors

\* String(e).includes('HTTP 404')
includesHTTP404_AnyHTTP(e) == \E i \in 1..Len(e) : e[i] = "HTTP"

includesHTTP404(e) ==
    \E i \in 1..(Len(e) - 1) : e[i] = "HTTP" /\ e[i + 1] = "404"

\* runISO: svc.runDate when it is written YYYY-MM-DD, iso otherwise
runISO(svc, iso) ==
    IF svc.runDate # Null /\ svc.runDate.sep = "-" THEN svc.runDate.ymd ELSE iso

\* for (const delta of [+1, -1])
RetryDeltas == <<1, -1>>

Lookup(key, date, err) == [key |-> key, date |-> date, err |-> err]

Returned(lookup) == [kind |-> "returned", from |-> lookup, e |-> None]

Threw(e) == [kind |-> "threw", from |-> Null, e |-> e]

DtInit ==
    /\ dtSvc \in [rid : BOOLEAN, runDate : RunDates]
    /\ dtIso \in Dates
    /\ dtPc = (IF dtSvc.rid THEN "rid" ELSE "uid")
    /\ dtLog = <<>> /\ dtErr = None /\ dtDeltas = <<>>
    /\ dtOut = Null
    /\ clsIn = ClsIdle /\ clsOut = ClsNone
    /\ DsIdle
    /\ XfIdle
    /\ PqIdle
    /\ CfIdle

dtOther == <<clsVars, dsVars, xfVars, pqVars, cfVars, dtSvc, dtIso>>

\* The lookup by rid answers, or fails (and the call falls back on the uid).
DtRid ==
    /\ dtPc = "rid"
    /\ \E err \in Answers :
        LET lookup == Lookup("rid", None, err)
        IN /\ dtLog' = Append(dtLog, lookup)
           /\ IF err = None
              THEN dtPc' = "returned" /\ dtOut' = Returned(lookup)
              ELSE dtPc' = "uid" /\ UNCHANGED dtOut
    /\ UNCHANGED <<dtOther, dtErr, dtDeltas>>

\* The lookup by uid and run date answers, or fails: only a 404 goes on to
\* the neighbouring dates.
DtUid ==
    /\ dtPc = "uid"
    /\ \E err \in Answers :
        LET lookup == Lookup("uid", runISO(dtSvc, dtIso), err)
        IN /\ dtLog' = Append(dtLog, lookup)
           /\ IF err = None
              THEN /\ dtPc' = "returned" /\ dtOut' = Returned(lookup)
                   /\ UNCHANGED <<dtErr, dtDeltas>>
              ELSE IF ~includesHTTP404(err)
              THEN /\ dtPc' = "threw" /\ dtOut' = Threw(err)
                   /\ UNCHANGED <<dtErr, dtDeltas>>
              ELSE /\ dtPc' = "retry"
                   /\ dtErr' = err /\ dtDeltas' = RetryDeltas
                   /\ UNCHANGED dtOut
    /\ UNCHANGED dtOther

\* One turn of the for loop: the lookup on a neighbouring date answers, or
\* fails; after the last delta the first failure is thrown.
DtRetry ==
    /\ dtPc = "retry"
    /\ \E err \in Answers :
        LET date == isoShiftDays(runISO(dtSvc, dtIso), Head(dtDeltas))
            lookup == Lookup("uid", date, err)
        IN /\ dtLog' = Append(dtLog, lookup)
           /\ dtDeltas' = Tail(dtDeltas)
           /\ IF err = None
              THEN dtPc' = "returned" /\ dtOut' = Returned(lookup)
              ELSE IF Tail(dtDeltas) = <<>>
              THEN dtPc' = "threw" /\ dtOut' = Threw(dtErr)
              ELSE UNCHANGED <<dtPc, dtOut>>
    /\ UNCHANGED <<dtOther, dtErr>>

DtNext ==
    \/ DtRid
    \/ DtUid
    \/ DtRetry

SpecDetail == DtInit /\ [][DtNext]_vars

\* ---------------------------------------------------- detailBySvc properties

\* Where the lookup by uid and run date D stands in the log of the call.
Primary == IF dtSvc.rid THEN 2 ELSE 1

RunDate == runISO(dtSvc, dtIso)

PrimaryAnswered == Len(dtLog) >= Primary

\* C16: when the lookup by uid on run date D answers 404, the next lookup is
\* on D-1 and the one after on D+1; the call returns the first of them that
\* succeeds, and throws the 404 of D only after both have failed.
C16_RetryOrder ==
    (PrimaryAnswered /\ dtLog[Primary].err = NotFound) =>
        /\ Len(dtLog) <= Primary + 2
        /\ Len(dtLog) > Primary =>
              dtLog[Primary + 1].date = isoShiftDays(RunDate, -1)
        /\ Len(dtLog) > Primary + 1 =>
              /\ dtLog[Primary + 1].err # None
              /\ dtLog[Primary + 2].date = isoShiftDays(RunDate, 1)
        /\ dtPc = "returned" =>
              dtOut = Returned(dtLog[Len(dtLog)]) /\ dtLog[Len(dtLog)].err = None
        /\ dtPc = "threw" =>
              Len(dtLog) = Primary + 2 /\ dtOut = Threw(dtLog[Primary].err)

\* C17: when the lookup by uid and run date fails with anything but a 404,
\* the call throws that error and makes no further lookup.
C17_OtherErrorsPropagate ==
    (PrimaryAnswered /\ dtLog[Primary].err \notin {None, NotFound}) =>
        /\ Len(dtLog) = Primary
        /\ dtPc = "threw"
        /\ dtOut = Threw(dtLog[Primary].err)

C17_Witness ==
    /\ dtSvc.rid
    /\ Len(dtLog) = 2
    /\ dtLog[1].err # None
    /\ dtLog[2].err = <<"HTTP", "500", "Internal Server Error">>
    /\ dtPc = "threw"

\* ------------------------------------------------- day selector, errors

\* C18: a run that starts without the username or without the password ends
\* at the credential check: it issues no search and no detail lookup, for
\* today or for tomorrow.
C18_NoLookupWithoutCredential ==
    (~dsCred.USER \/ ~dsCred.PASS) =>
        /\ dsLookups = <<>>
        /\ \A day \in {"today", "tomorrow"} : dsSeen[day] = Null
        /\ dsPc \in {"start", "exit", "failed"}

C18_Witness ==
    /\ dsCred.USER /\ ~dsCred.PASS
    /\ dsPc \in {"exit", "failed"}
    /\ dsLookups = <<>>

\* A snapshot without its generation timestamp.
Unstamped(snapshot) ==
    [f \in DOMAIN snapshot \ {"when", "generatedAt"} |-> snapshot[f]]

SecondRunOver == dsRerun.run = 2 /\ dsPc \in {"done", "failed"}

\* C19: a second run of part_001 with the same `now` and the same provider
\* responses as the first leaves in status.json the snapshot the first run
\* left there, but for the generation timestamp, although the files of the
\* first run are on disk when it starts.
C19_Idempotent ==
    SecondRunOver => Unstamped(statusJson) = Unstamped(dsRerun.first)

C19_Witness ==
    /\ SecondRunOver
    /\ dsPc = "done" /\ dsTarget = "tomorrow"
    /\ statusJson.status = "delayed"
    /\ Len(historyLog) = 2
    /\ dsRerun.at = Len(dsRerun.tape) + 1

\* C20: whatever a run that passed the credential check writes to
\* status.json has a status field, the record written after a failed lookup
\* included.
C20_SnapshotHasStatus ==
    (dsCred.USER /\ dsCred.PASS /\ statusJson # PreviousSnapshot) =>
        "status" \in DOMAIN statusJson

\* ------------------------------------------------ day selector, its files

PassedCheck == dsCred.USER /\ dsCred.PASS

RunOver == dsPc \in {"done", "failed"}

\* C21: a run that passed the credential check appends nothing to
\* history.jsonl and leaves status.json alone while it is looking up, and
\* when it is over it has written one snapshot and appended that one record:
\* the payload on success, the error record (description and timestamp) when
\* a lookup failed.
C21_OneRecordPerRun ==
    PassedCheck =>
        /\ ~RunOver => historyLog = <<>> /\ statusJson = PreviousSnapshot
        /\ RunOver =>
              /\ Len(historyLog) = 1
              /\ historyLog[1] = statusJson
              /\ dsPc = "done" => statusJson = dsPayload /\ "status" \in DOMAIN statusJson
              /\ dsPc = "failed" => DOMAIN statusJson = {"error", "when"}

C21_Witness ==
    /\ PassedCheck
    /\ dsPc = "failed"
    /\ dsLookups = <<"today", "tomorrow">>
    /\ Len(historyLog) = 1

\* C22: every run comes to its end, having written its output, whatever the
\* provider does: a lookup that is never answered is given up after a
\* timeout and the run goes on.
C22_RunTerminates == <>(dsPc \in {"done", "failed", "exit"})

\* ------------------------------------------------------- pairing planner
\* The second script of xfer_plan.js: two searches at once, then the legs of
\* each are normalised and paired.

MaxSrcLegs == 1
MaxCljLegs == 2

SRC == "SRC"
CLJ == "CLJ"
IMW == "IMW"

\* WINDOW_START_HHMM, e.g. "0735"
WINDOW_START_HHMM == HHMM(7, 35)
BACK_MINS == 40
FWD_MINS == 180
MIN_XFER_MINS == 3
MAX_XFER_MINS == 20

\* A location of a service of a search result; a delay is None when the
\* provider sends no number.
PqLoc(bDep, rDep, bArr, rArr, canc, arrDelay) ==
    [gbttBookedDeparture |-> bDep, realtimeDeparture |-> rDep,
     gbttBookedArrival |-> bArr, realtimeArrival |-> rArr,
     isCancelled |-> canc,
     departureDelay |-> None, arrivalDelay |-> arrDelay]

PqService(fromCrs, from, toCrs, to) ==
    [locations |-> [crs \in {fromCrs, toCrs} |-> IF crs = fromCrs THEN from ELSE to],
     isCancelled |-> FALSE]

\* Times of the day of the run.
PqSrcDep == HHMM(7, 40)
PqCljArr == HHMM(8, 9)
PqImwArr == HHMM(8, 50)

\* First legs: booked to arrive at 0809, observed there or not, a minute
\* late or not, cancelled or not, or not calling at CLJ in the result.
SrcCljServices ==
    {PqService(SRC, PqLoc(PqSrcDep, None, None, None, canc, None),
               CLJ, PqLoc(None, None, PqCljArr, rArr, FALSE, arrDelay)) :
        canc \in BOOLEAN,
        rArr \in {None, Shift(PqCljArr, 1)},
        arrDelay \in {None, <<1>>}}
    \cup {PqService(SRC, PqLoc(PqSrcDep, None, None, None, FALSE, None), CLJ, Null)}

\* Second legs: leaving CLJ just under and at MIN_XFER_MINS after 0809, and
\* at and just over MAX_XFER_MINS after 0809; cancelled or not.
CljImwServices ==
    {PqService(CLJ, PqLoc(bDep, None, None, None, canc, None),
               IMW, PqLoc(None, None, PqImwArr, None, FALSE, None)) :
        bDep \in {Shift(PqCljArr, MIN_XFER_MINS - 1), Shift(PqCljArr, MIN_XFER_MINS),
                  Shift(PqCljArr, MAX_XFER_MINS), Shift(PqCljArr, MAX_XFER_MINS + 1)},
        canc \in BOOLEAN}

\* rttGet: the body, with its services
SearchBody(services) == [services |-> services]

\* pickLoc(call, crs)
pickLoc(call, crs) ==
    IF crs \in DOMAIN call.locations THEN call.locations[crs] ELSE Null

Or3(a, b, c) == Or2(a, Or2(b, c))

\* typeof d === "number" ? d : 0
NumberOr0(d) == IF d = None THEN 0 ELSE d[1]

\* locTimes(loc); no location of the runs has realtimeGBTTDeparture or
\* realtimeGBTTArrival, nor departureDelayMins or arrivalDelayMins
locTimes(loc) ==
    [dep |-> Or3(loc.realtimeDeparture, None, loc.gbttBookedDeparture),
     arr |-> Or3(loc.realtimeArrival, None, loc.gbttBookedArrival),
     depDelayMins |-> NumberOr0(loc.departureDelay),
     arrDelayMins |-> NumberOr0(loc.arrivalDelay)]

\* xfer_plan.js (pairing planner): statusFromDelays
pairingStatusFromDelays(depDelay, arrDelay, cancelled) ==
    IF cancelled THEN "cancelled"
    ELSE IF depDelay > 0 \/ arrDelay > 0 THEN "delayed"
    ELSE "on_time"

\* xfer_plan.js (pairing planner): inWindow(hhmm, anchorHHMM, backMins, fwdMins)
inWindowAround(hhmm, anchorHHMM, backMins, fwdMins) ==
    /\ Truthy(hhmm) /\ Len(hhmm) = 4
    /\ toMin(hhmm) >= toMin(anchorHHMM) - backMins
    /\ toMin(hhmm) <= toMin(anchorHHMM) + fwdMins

\* One turn of a normalising loop: the leg of service s, or Null when the
\* loop continues without pushing.
NormLeg(s, fromCrs, toCrs) ==
    LET from == pickLoc(s, fromCrs)
        to == pickLoc(s, toCrs)
    IN IF from = Null \/ to = Null THEN Null
       ELSE LET ft == locTimes(from)
                tt == locTimes(to)
                cancelled == from.isCancelled \/ to.isCancelled \/ s.isCancelled
            IN IF /\ ~inWindowAround(ft.dep, WINDOW_START_HHMM, BACK_MINS, FWD_MINS)
                  /\ ~inWindowAround(tt.arr, WINDOW_START_HHMM, BACK_MINS, FWD_MINS)
               THEN Null
               ELSE [from |-> fromCrs, to |-> toCrs,
                     dep |-> ft.dep, arr |-> tt.arr,
                     depDelayMins |-> ft.depDelayMins,
                     arrDelayMins |-> tt.arrDelayMins,
                     status |-> pairingStatusFromDelays(ft.depDelayMins, tt.arrDelayMins,
                                                        cancelled)]

\* for (const s of services) { ... push }
RECURSIVE Normalise(_, _, _)
Normalise(services, fromCrs, toCrs) ==
    IF services = <<>> THEN <<>>
    ELSE LET leg == NormLeg(Head(services), fromCrs, toCrs)
             rest == Normalise(Tail(services), fromCrs, toCrs)
         IN IF leg = Null THEN rest ELSE <<leg>> \o rest

\* a pairing test without the lower bound
waitOutOfBounds_NoMin(wait) == wait > MAX_XFER_MINS

\* wait < MIN_XFER_MINS || wait > MAX_XFER_MINS
waitOutOfBounds(wait) == wait < MIN_XFER_MINS \/ wait > MAX_XFER_MINS

\* a transfer status that looks at cancellations
transferStatus_Cancelled(a, b) ==
    IF a.status = "cancelled" \/ b.status = "cancelled" THEN "cancelled"
    ELSE IF a.status = "delayed" \/ b.status = "delayed" THEN "delayed"
    ELSE "on_time"

\* a.status === "delayed" || b.status === "delayed" ? "delayed" : "on_time"
transferStatus(a, b) ==
    IF a.status = "delayed" \/ b.status = "delayed" THEN "delayed" ELSE "on_time"

Transfer(a, b, wait) ==
    [srcDep |-> a.dep, cljArr |-> a.arr, transferMins |-> wait,
     cljDep |-> b.dep, cljDepUsed |-> b.dep,
     imwArr |-> b.arr, imwArrUsed |-> b.arr,
     status |-> transferStatus(a, b),
     first |-> a, second |-> b]

\* the inner loop: the transfers of first leg a with the second legs bs
RECURSIVE PairWith(_, _)
PairWith(a, bs) ==
    IF bs = <<>> THEN <<>>
    ELSE LET b == Head(bs)
             rest == PairWith(a, Tail(bs))
         IN IF ~Truthy(b.dep) THEN rest
            ELSE LET wait == toMin(b.dep) - toMin(a.arr)
                 IN IF waitOutOfBounds(wait) THEN rest
                    ELSE <<Transfer(a, b, wait)>> \o rest

\* the outer loop
RECURSIVE Pair(_, _)
Pair(as, bs) ==
    IF as = <<>> THEN <<>>
    ELSE LET a == Head(as)
             rest == Pair(Tail(as), bs)
         IN IF ~Truthy(a.arr) THEN rest ELSE PairWith(a, bs) \o rest

\* the comparator of transfers.sort: x goes before y
SortsBefore(x, y) ==
    \/ toMin(x.srcDep) < toMin(y.srcDep)
    \/ toMin(x.srcDep) = toMin(y.srcDep) /\ x.transferMins < y.transferMins

\* transfers.sort(...), which keeps the order of equal elements
RECURSIVE InsertSorted(_, _)
InsertSorted(x, sorted) ==
    IF sorted = <<>> THEN <<x>>
    ELSE IF SortsBefore(x, Head(sorted)) THEN <<x>> \o sorted
    ELSE <<Head(sorted)>> \o InsertSorted(x, Tail(sorted))

RECURSIVE SortTransfers(_)
SortTransfers(ts) ==
    IF ts = <<>> THEN <<>>
    ELSE InsertSorted(ts[Len(ts)], SortTransfers(SubSeq(ts, 1, Len(ts) - 1)))

\* transfers.slice(0, 12)
Slice12(ts) == SubSeq(ts, 1, IF Len(ts) < 12 THEN Len(ts) ELSE 12)

\* what Promise.all resolves with, handed over by the order of completion
allResults_ByCompletion(srcClj, cljImw, order) ==
    IF order[1] = "clj_imw" THEN <<cljImw, srcClj>> ELSE <<srcClj, cljImw>>

\* what Promise.all resolves with: the bodies in the order of the promises
allResults(srcClj, cljImw, order) == <<srcClj, cljImw>>

\* main, from the destructuring of Promise.all's result to the write
PlanOf(results) ==
    LET srcLegs == Normalise(results[1].services, SRC, CLJ)
        cljLegs == Normalise(results[2].services, CLJ, IMW)
    IN [direct |-> Null,
        transfers |-> Slice12(SortTransfers(Pair(srcLegs, cljLegs))),
        legs |-> [src_clj |-> srcLegs, clj_imw |-> cljLegs]]

PqInit ==
    /\ pqPc = "searching"
    /\ pqSrcClj = Pending /\ pqCljImw = Pending
    /\ pqOrder = <<>>
    /\ pqFile = PreviousPlan
    /\ clsIn = ClsIdle /\ clsOut = ClsNone
    /\ DsIdle
    /\ XfIdle
    /\ DtIdle
    /\ CfIdle

pqOther == <<clsVars, dsVars, xfVars, dtVars, cfVars>>

\* Promise.all after one of its promises settled: rejected as soon as one
\* is, fulfilled once both are.
AllSettled(srcClj, cljImw) ==
    IF srcClj = Failure \/ cljImw = Failure THEN "rejected"
    ELSE IF srcClj = Pending \/ cljImw = Pending THEN "searching"
    ELSE "fulfilled"

\* rttGet(srcCljUrl) settles.
PqSrcCljSettles ==
    /\ pqPc = "searching" /\ pqSrcClj = Pending
    /\ \E r \in {Failure} \cup {Answer(SearchBody(svcs)) :
                                  svcs \in SeqsUpTo(SrcCljServices, MaxSrcLegs)} :
        /\ pqSrcClj' = r
        /\ pqPc' = AllSettled(r, pqCljImw)
    /\ pqOrder' = Append(pqOrder, "src_clj")
    /\ UNCHANGED <<pqOther, pqCljImw, pqFile>>

\* rttGet(cljImwUrl) settles.
PqCljImwSettles ==
    /\ pqPc = "searching" /\ pqCljImw = Pending
    /\ \E r \in {Failure} \cup {Answer(SearchBody(svcs)) :
                                  svcs \in SeqsUpTo(CljImwServices, MaxCljLegs)} :
        /\ pqCljImw' = r
        /\ pqPc' = AllSettled(pqSrcClj, r)
    /\ pqOrder' = Append(pqOrder, "clj_imw")
    /\ UNCHANGED <<pqOther, pqSrcClj, pqFile>>

\* main after the await: the legs are normalised and paired, xfer.json is
\* written.
PqPlan ==
    /\ pqPc = "fulfilled"
    /\ pqFile' = PlanOf(allResults(pqSrcClj.body, pqCljImw.body, pqOrder))
    /\ pqPc' = "done"
    /\ UNCHANGED <<pqOther, pqSrcClj, pqCljImw, pqOrder>>

\* main().catch: the error is logged and the process exits with 1.
PqCatch ==
    /\ pqPc = "rejected"
    /\ pqPc' = "exit"
    /\ UNCHANGED <<pqOther, pqSrcClj, pqCljImw, pqOrder, pqFile>>

PqNext ==
    \/ PqSrcCljSettles
    \/ PqCljImwSettles
    \/ PqPlan
    \/ PqCatch

SpecPairing == PqInit /\ [][PqNext]_vars

\* ------------------------------------------------ pairing planner properties

Emitted == IF pqFile = PreviousPlan THEN {} ELSE {pqFile.transfers[i] : i \in 1..Len(pqFile.transfers)}

\* C23: every transfer written has transferMins equal to the minutes from
\* the first leg's arrival at CLJ to the second leg's departure from CLJ, and
\* that wait lies between MIN_XFER_MINS and MAX_XFER_MINS, so it is not
\* negative; and every pair of normalised legs within the bounds is written.
C23_TransferWithinBounds ==
    /\ \A t \in Emitted :
        /\ t.transferMins = MinuteOfDay(t.cljDep) - MinuteOfDay(t.cljArr)
        /\ t.transferMins >= MIN_XFER_MINS /\ t.transferMins <= MAX_XFER_MINS
        /\ t.transferMins >= 0
        /\ t.cljArr = t.first.arr /\ t.cljDep = t.second.dep

C23_Witness ==
    /\ pqPc = "done"
    /\ \E t \in Emitted : t.transferMins = MAX_XFER_MINS
    /\ \E i \in 1..Len(pqCljImw.body.services) :
        pqCljImw.body.services[i].locations[CLJ].gbttBookedDeparture
            = Shift(PqCljArr, MAX_XFER_MINS + 1)
    /\ Len(pqFile.legs.src_clj) = 1 /\ pqFile.legs.src_clj[1].arr = PqCljArr

\* A leg of the output is cancelled: its status says so.
LegCancelled(leg) == leg.status = "cancelled"

\* C24: a transfer one of whose legs is cancelled is written with the status
\* "cancelled", never "on_time".
C24_CancelledTransfer ==
    \A t \in Emitted :
        (LegCancelled(t.first) \/ LegCancelled(t.second)) => t.status = "cancelled"

\* The bodies the two searches were answered with, once both were.
BothAnswered ==
    /\ pqSrcClj \notin {Pending, Failure}
    /\ pqCljImw \notin {Pending, Failure}

\* What is written when normalisation and pairing are given the body of the
\* SRC->CLJ search as first legs and the body of the CLJ->IMW search as
\* second legs.
PlanOfSearches == PlanOf(<<pqSrcClj.body, pqCljImw.body>>)

C27_AfterBoth ==
    /\ pqPc \in {"fulfilled", "done"} => BothAnswered
    /\ pqFile # PreviousPlan =>
          /\ pqPc = "done" /\ BothAnswered /\ Len(pqOrder) = 2
          /\ pqFile = PlanOfSearches

\* the answer to one search leaves what the other search settled with alone
C27_NoSharedState ==
    /\ pqSrcClj' # pqSrcClj => pqCljImw' = pqCljImw /\ pqFile' = pqFile
    /\ pqCljImw' # pqCljImw => pqSrcClj' = pqSrcClj /\ pqFile' = pqFile
    /\ pqSrcClj # Pending => pqSrcClj' = pqSrcClj
    /\ pqCljImw # Pending => pqCljImw' = pqCljImw

\* C27: both searches are under way from the start and are answered in
\* either order, each answer touching only its own result; nothing is
\* written before both are answered, and what is written depends on the two
\* bodies only, not on which search was answered first.
C27_ConcurrentSearches ==
    /\ []C27_AfterBoth
    /\ [][C27_NoSharedState]_vars

C27_Witness ==
    /\ pqPc = "done"
    /\ pqOrder = <<"clj_imw", "src_clj">>
    /\ pqFile.transfers # <<>>

\* --------------------------------------------- tracker, observed times

\* C25: in the tracker the observed time of a stop is its actual time when it
\* has one, its realtime estimate only when it has no actual time, and absent
\* when it has neither, the delay then being null.
C25_ActualOutranksEstimate ==
    clsOut.fn = "statusFromDelays" =>
        LET o == locationTimes(clsIn.origin)
            d == locationTimes(clsIn.dest)
        IN /\ Truthy(clsIn.dest.actualArrival) => d.rtArrival = clsIn.dest.actualArrival
           /\ Truthy(clsIn.origin.actualDeparture) =>
                 o.rtDeparture = clsIn.origin.actualDeparture
           /\ (~Truthy(clsIn.dest.actualArrival) /\ ~Truthy(clsIn.dest.realtimeArrival)) =>
                 /\ d.rtArrival = None
                 /\ delayMins(d.bookedArrival, d.rtArrival) = None

\* ------------------------------------------- day selector, reachability

\* C26: whenever the snapshot written has a status other than not_found, the
\* detail of the service it was classified from has a call at DEST.
C26_ChosenReachesDest ==
    (dsPc = "done" /\ statusJson.status # "not_found") =>
        /\ findCall(DEST, dsSeen[statusJson.date]) # Null
        /\ statusJson.destination # Null

\* ------------------------------------------------ planner, direct option

\* the direct search of the today-only planner answered with these services
DirectAnswered ==
    /\ xfScript = "part_005"
    /\ xfSeen # Null /\ xfSeen.step = "directSearch" /\ ~xfSeen.failed

\* C28: when the direct search returns a service booked to leave at the
\* anchor time, the service the direct option is read from leaves at the
\* anchor time; when it returns nothing no direct option is looked up and
\* the run goes on to the first legs.
C28_DirectAtAnchor ==
    DirectAnswered =>
        /\ (\E i \in 1..Len(xfSeen.stops) : xfSeen.stops[i].dep = WINDOW_START) =>
              /\ xfPc = "directDetail"
              /\ xfDirectSvc.dep = WINDOW_START
        /\ xfSeen.stops = <<>> =>
              /\ xfPc = "legSearch" /\ xfDirectSvc = Null
              /\ xfOut.direct = Null

\* ------------------------------------------------- day selector, rollover

\* the decision of the second of two runs on the same day, today's booked
\* service having been found in both
BothFoundToday ==
    /\ dsRerun.run = 2 /\ ~dsRerun.same
    /\ dsRerun.earlier.switch # None /\ dsSwitch # None
    /\ dsRerun.earlier.today.status # "not_found"
    /\ dsRerun.earlier.today.origin # Null
    /\ dsToday.status # "not_found"
    /\ dsToday.origin # Null

\* the first run wrote a snapshot of tomorrow's service
WroteTomorrow ==
    /\ "date" \in DOMAIN dsRerun.first
    /\ dsRerun.first.date = "tomorrow"

MaxCfSvcs == 2

\* "HH:MM", as localHM gives it and as CUTOVER is written
HM(h, m) == [hh |-> <<h \div 10, h % 10>>, mm |-> <<m \div 10, m % 10>>]

CUTOVER == HM(9, 0)

\* toMinAny: the colon is taken out, then the first two and the next two
\* digits are parsed
toMinAny(h) == toMin(h.hh \o h.mm)

\* targetISO: today's date, or the day after from CUTOVER on
targetISO(hm) == IF toMinAny(hm) >= toMinAny(CUTOVER) THEN "tomorrow" ELSE "today"

CfNowTimes == {HM(8, 59), HM(9, 0)}

\* A service of the search response: dep is
\* s.locationDetail.gbttBookedDeparture || s.gbttBookedDeparture.
CfServices ==
    [dep : {GBTT, Shift(GBTT, 6)}, serviceUid : BOOLEAN, rid : BOOLEAN,
     runDate : BOOLEAN]

CfSearchResponses == SeqsUpTo(CfServices, MaxCfSvcs)

\* The stops of a detail: find(crs) gives {} for a station the detail lacks.
CfOriginStops ==
    {EmptyStop} \cup
    {Call(None, GBTT, None, rDep, None, None, canc) :
        rDep \in {None, GBTT, Shift(GBTT, 1)}, canc \in BOOLEAN}

CfDestStops ==
    {EmptyStop} \cup
    {Call(BookedArr, None, rArr, None, None, None, FALSE) :
        rArr \in {None, Shift(BookedArr, 1)}}

CfDetails == [o : CfOriginStops, dest : CfDestStops]

\* main: svc, the service booked at HHMM, else the first one, else undefined
cutoverChoice(svcs) ==
    OrElse(FindFirst(svcs, {i \in 1..Len(svcs) : svcs[i].dep = GBTT}),
           FirstOrNull(svcs))

\* main: rt && booked ? toMin(rt) - toMin(booked) : null
DelayOf(rt, booked) ==
    IF Truthy(rt) /\ Truthy(booked) THEN <<toMin(rt) - toMin(booked)>> ELSE None

\* main: out.origin, out.destination
StopInfo(l) ==
    [bookedArrival |-> l.gbttBookedArrival, bookedDeparture |-> l.gbttBookedDeparture,
     realtimeArrival |-> l.realtimeArrival, realtimeDeparture |-> l.realtimeDeparture,
     arrivalDelayMins |-> DelayOf(l.realtimeArrival, l.gbttBookedArrival),
     departureDelayMins |-> DelayOf(l.realtimeDeparture, l.gbttBookedDeparture),
     isCancelled |-> l.isCancelled]

\* main: out
CutoverSnapshot(svc, iso, detail) ==
    [date |-> IF svc.runDate THEN "runDate" ELSE iso,
     originCRS |-> ORIGIN, destinationCRS |-> DEST,
     serviceUid |-> svc.serviceUid, rid |-> svc.rid,
     gbttBookedDeparture |-> GBTT,
     origin |-> StopInfo(detail.o),
     destination |-> StopInfo(detail.dest),
     status |-> statusFrom(detail.o, detail.dest)]

CfInit ==
    /\ cfPc = "start"
    /\ cfCred \in [USER : BOOLEAN, PASS : BOOLEAN]
    /\ cfNow \in CfNowTimes
    /\ cfSvc = Null /\ cfErr = None /\ cfDeltas = <<>> /\ cfDetail = Null
    /\ cfLog = <<>>
    /\ cfTmp = Null /\ cfFile = PreviousSnapshot
    /\ clsIn = ClsIdle /\ clsOut = ClsNone
    /\ DsIdle
    /\ XfIdle
    /\ DtIdle
    /\ PqIdle

cfOther == <<clsVars, dsVars, xfVars, dtVars, pqVars, cfCred, cfNow>>

CfLogged(step, failed) == cfLog' = Append(cfLog, [step |-> step, failed |-> failed])

\* a give-up that puts an error record in status.json
KeepLastGood_ErrorSnapshot ==
    /\ cfPc' = "done"
    /\ cfFile' = [error |-> "Error"]
    /\ UNCHANGED cfTmp

\* main: return, "keep last good file"
KeepLastGood ==
    /\ cfPc' = "done"
    /\ UNCHANGED <<cfTmp, cfFile>>

\* main: detail is in hand, on to building out
CfGotDetail(detail) ==
    /\ cfDetail' = detail
    /\ cfPc' = "write"
    /\ UNCHANGED <<cfTmp, cfFile>>

\* The script is loaded: without both credentials it exits at once.
CfStart ==
    /\ cfPc = "start"
    /\ cfPc' = IF ~cfCred.USER \/ ~cfCred.PASS THEN "exit" ELSE "search"
    /\ UNCHANGED <<cfOther, cfSvc, cfErr, cfDeltas, cfDetail, cfLog, cfTmp, cfFile>>

\* The search answers, or fails.
CfSearch ==
    /\ cfPc = "search"
    /\ \/ /\ CfLogged("search", TRUE)
          /\ KeepLastGood
          /\ UNCHANGED cfSvc
       \/ \E svcs \in CfSearchResponses :
            LET svc == cutoverChoice(svcs)
            IN /\ CfLogged("search", FALSE)
               /\ IF svc = Null \/ ~svc.serviceUid
                  THEN KeepLastGood /\ UNCHANGED cfSvc
                  ELSE /\ cfSvc' = svc
                       /\ cfPc' = IF svc.rid THEN "detailRid" ELSE "detailUid"
                       /\ UNCHANGED <<cfTmp, cfFile>>
    /\ UNCHANGED <<cfOther, cfErr, cfDeltas, cfDetail>>

\* The detail by rid answers, or fails.
CfDetailRid ==
    /\ cfPc = "detailRid"
    /\ \/ /\ CfLogged("detailRid", TRUE)
          /\ KeepLastGood
          /\ UNCHANGED cfDetail
       \/ /\ CfLogged("detailRid", FALSE)
          /\ \E detail \in CfDetails : CfGotDetail(detail)
    /\ UNCHANGED <<cfOther, cfSvc, cfErr, cfDeltas>>

\* The detail by uid and target date answers, or fails and the adjacent
\* dates are tried.
CfDetailUid ==
    /\ cfPc = "detailUid"
    /\ \/ /\ CfLogged("detailUid", TRUE)
          /\ cfErr' = <<"Error">> /\ cfDeltas' = RetryDeltas
          /\ cfPc' = "retry"
          /\ UNCHANGED <<cfDetail, cfTmp, cfFile>>
       \/ /\ CfLogged("detailUid", FALSE)
          /\ \E detail \in CfDetails : CfGotDetail(detail)
          /\ UNCHANGED <<cfErr, cfDeltas>>
    /\ UNCHANGED <<cfOther, cfSvc>>

\* One pass of the for loop: the detail of an adjacent date answers (break),
\* or fails; after the last delta, if (!detail) throw e.
CfRetry ==
    /\ cfPc = "retry"
    /\ cfDeltas # <<>>
    /\ \/ /\ CfLogged("retry", TRUE)
          /\ cfDeltas' = Tail(cfDeltas)
          /\ IF Tail(cfDeltas) = <<>>
             THEN KeepLastGood
             ELSE cfPc' = "retry" /\ UNCHANGED <<cfTmp, cfFile>>
          /\ UNCHANGED cfDetail
       \/ /\ CfLogged("retry", FALSE)
          /\ \E detail \in CfDetails : CfGotDetail(detail)
          /\ UNCHANGED cfDeltas
    /\ UNCHANGED <<cfOther, cfSvc, cfErr>>

\* fs.writeFileSync(tmp, JSON.stringify(out))
CfWriteTmp ==
    /\ cfPc = "write"
    /\ cfTmp' = CutoverSnapshot(cfSvc, targetISO(cfNow), cfDetail)
    /\ cfPc' = "rename"
    /\ UNCHANGED <<cfOther, cfSvc, cfErr, cfDeltas, cfDetail, cfLog, cfFile>>

\* fs.renameSync(tmp, 'status.json')
CfRename ==
    /\ cfPc = "rename"
    /\ cfFile' = cfTmp /\ cfTmp' = Null
    /\ cfPc' = "done"
    /\ UNCHANGED <<cfOther, cfSvc, cfErr, cfDeltas, cfDetail, cfLog>>

CfNext ==
    \/ CfStart
    \/ CfSearch
    \/ CfDetailRid
    \/ CfDetailUid
    \/ CfRetry
    \/ CfWriteTmp
    \/ CfRename

SpecCutover == CfInit /\ [][CfNext]_vars

\* ------------------------------------------ cutover status fetcher properties

CfLast == cfLog[Len(cfLog)]

\* the ways a run ends without a detail
CfSearchFailed == Len(cfLog) = 1 /\ cfLog[1].failed

CfNoService == Len(cfLog) = 1 /\ ~cfLog[1].failed /\ cfSvc = Null

CfDetailFailed ==
    /\ Len(cfLog) > 1
    /\ CfLast.failed
    /\ CfLast.step = "detailRid" \/ (CfLast.step = "retry" /\ cfDeltas = <<>>)

\* a snapshot with its date, both stops and a status
CfComplete(f) ==
    /\ {"date", "origin", "destination", "status", "serviceUid"} \subseteq DOMAIN f
    /\ f.status \in {"on_time", "delayed", "cancelled"}
    /\ f.date \in {"today", "tomorrow", "runDate"}

CfKept ==
    (cfPc = "done" /\ (CfSearchFailed \/ CfNoService \/ CfDetailFailed))
        => cfFile = PreviousSnapshot

CfReplacedByRename ==
    cfFile' # cfFile =>
        /\ cfPc = "rename"
        /\ cfFile' = cfTmp
        /\ CfComplete(cfTmp)

\* C30: when the search fails, returns no service with an id, or the detail
\* lookup fails (after the adjacent-date retries), status.json is what it was
\* before the run; and status.json changes only by the rename of
\* status.tmp.json, which then holds a complete snapshot.
C30_KeepLastGood == []CfKept /\ [][CfReplacedByRename]_vars

\* C30 witness: the lookup by uid and both adjacent dates failed, the run is
\* over and status.json is the previous snapshot.
C30_Witness ==
    /\ cfPc = "done"
    /\ Len(cfLog) = 4 /\ CfDetailFailed
    /\ cfLog[2].step = "detailUid" /\ cfLog[3].failed
    /\ cfFile = PreviousSnapshot

==============================================================================
